---------------------------- MODULE Spec2Model ----------------------------
(***************************************************************************)
(* A model of the Discord infrastructure enumerator.                       *)
(*                                                                         *)
(*  - The orchestrator (src/discord_enum.py): DiscordEnumerator's          *)
(*    enumerate_all and enumerate_module, run over the five registered     *)
(*    units.  Specification Spec.                                          *)
(*  - The request client (src/modules/base.py): BaseEnumerator's           *)
(*    _make_request with its retry loop.  Specification SpecRequest.       *)
(*  - enumerate_all alone with the order in which the tasks end            *)
(*    (SpecOrder), and under an interrupt of asyncio.run (SpecInterrupt).  *)
(*  - BaseEnumerator._parallel_requests.  Specification SpecMany.          *)
(*  - The CDN fuzzer (src/modules/cdn_fuzzer.py): _fuzz_cdn_paths, run     *)
(*    twice against one CDN.  Specification SpecFuzz.                      *)
(*  - The event loop that runs the five units' enumerate coroutines        *)
(*    under asyncio.gather.  Specification SpecLoop.                       *)
(*                                                                         *)
(* Durations are in milliseconds, so that the 0.5 s default delay is an    *)
(* integer.                                                                *)
(***************************************************************************)
EXTENDS Integers, Sequences, FiniteSets, TLC

VARIABLES
    \* ---- orchestrator (discord_enum.py) ----
    call,            \* which coroutine runs: "none", "all" (enumerate_all), "one" (enumerate_module)
    module,          \* the argument of enumerate_module
    cstate,          \* "idle", "constructing", "running", "returned", "raised"
    built,           \* enumerate_all: how many entries of the enumerators dict are constructed
    upc,             \* per unit: where its run_enumerator task (or the enumerate_module body) stands
    pending,         \* per unit: the exception travelling through `async with`, or NoExc
    results,         \* enumerate_all: results['results'], a dict keyed by unit name
    execution_time,  \* enumerate_all: the keys of results['metadata']['execution_time']
    moduleResults,   \* enumerate_module: results['results']
    moduleTimed,     \* enumerate_module: whether metadata.execution_time was set (line 133)
    raised,          \* the exception the coroutine raised to its caller, or NoExc
    enumRet,         \* history: what each unit's enumerate() returned
    failed,          \* history: the exceptions each unit raised, in order
    events,          \* history, per unit: "executor" (made), "session" (opened), "enumerate",
                     \* "closed" (session), "shutdown" (executor), in order
    report,          \* what the caller of the coroutine was handed back
    first,           \* history: the unit whose task ended first, "none" before that;
                     \* kept only by the runs that start with it "none" (SpecOrder)
    \* ---- request client (base.py) ----
    rpc,             \* "idle", "loop", "sleep", "done"
    session,         \* whether self.session is set
    retries,         \* the local `retries`
    wake,            \* what follows the pending asyncio.sleep: "dec429" or "loop"
    sleepFor,        \* the argument of the pending asyncio.sleep, ms
    now,             \* the clock, ms
    outcome,         \* how _make_request ended: a return value or a raised exception
    observed,        \* history: the response or failure each attempt met
    attemptAt,       \* history: the clock at each attempt
    sleeps,          \* history: every asyncio.sleep made, <<cause, ms>>
    \* ---- _parallel_requests (base.py) ----
    mpc,             \* "idle", "gather", "done"
    urls,            \* the argument `urls`
    tasks,           \* per task of fetch_with_delay: "sleeping", "requesting", "done"
    gathered,        \* per task: what it returned or raised, as gather collects it
    manyRet,         \* the list _parallel_requests returned
    mnow,            \* the clock of the event loop since the call, ms
    issuedAt,        \* history, per task: the clock when its request was issued, -1 before
    \* ---- the CDN fuzzer (cdn_fuzzer.py) ----
    fpc,             \* _fuzz_cdn_paths: "idle", "ids", "loop", "done"
    run,             \* which run of the fuzzer this is: 1 or 2
    net,             \* how the CDN answers; the same in both runs
    seed,            \* what the random module was seeded with in this run
    rng,             \* the state of the random module's generator
    test_ids,        \* the local test_ids
    pos,             \* the loop variables, as indices <<domain, pattern, test_id, ext>>
    count,           \* history: how many candidate URLs this run has built
    heads,           \* history: how many HEAD requests this run has sent
    fuzz,            \* the local results: [interesting, vulnerable]
    answers,         \* history: the URL and response of every HEAD request answered
    fuzzRaised,      \* the exception that left _fuzz_cdn_paths, or "none"
    prev,            \* history: the seed and the returned results of the run before
    \* ---- the event loop under enumerate_all's gather ----
    tstate,          \* per unit's enumerate(): "ready" to start, "suspended" at an await, "done"
    yields           \* history, per unit: how often its enumerate() was suspended

\* The DNS unit (DNSEnumerator.enumerate)
VARIABLES
    dpc,             \* where enumerate is: "idle", "records", "ns", "security", "zone",
                     \* "xfr", "subs", "done", "raised"
    world,           \* what the resolver and the nameservers answer, fixed for the run
    dom,             \* index in DISCORD_DOMAINS of the domain being enumerated
    nameservers,     \* the NS answer that the zone-transfer loop iterates over
    nsi,             \* index in nameservers of the next transfer attempt
    domain_results,  \* the dict of the current domain
    dnsResults,      \* the dict that enumerate returns
    dnsRaised,       \* the exception that left enumerate, or "none"
    lookups,         \* history: every <<name, type>> handed to dns.resolver.resolve
    xfrs             \* history: every <<domain, nameserver>> handed to dns.query.xfr

\* The units' enumerate, one sub-target after the other
VARIABLES
    unit,            \* the unit whose enumerate runs
    utoken,          \* whether the unit was given a token
    phase,           \* "idle", "loop" (for cdn: "endpoints", "fuzz", "metadata"),
                     \* "returned", "raised"
    idx,             \* index of the next sub-target of the phase
    uresults,        \* the results dict of enumerate
    attempted,       \* history: the sub-targets attempted, in order
    outcomeOf,       \* history: how each attempt ended
    uraised          \* the exception that left enumerate, or "none"

orchVars == <<call, module, cstate, built, upc, pending, results, execution_time,
              moduleResults, moduleTimed, raised, enumRet, failed, events, report, first>>
reqVars == <<rpc, session, retries, wake, sleepFor, now, outcome, observed,
             attemptAt, sleeps>>
manyVars == <<mpc, urls, tasks, gathered, manyRet, mnow, issuedAt>>
fuzzVars == <<fpc, run, net, seed, rng, test_ids, pos, count, heads, fuzz, answers,
              fuzzRaised, prev>>
loopVars == <<tstate, yields>>
dnsVars == <<dpc, world, dom, nameservers, nsi, domain_results, dnsResults, dnsRaised,
             lookups, xfrs>>
unitVars == <<unit, utoken, phase, idx, uresults, attempted, outcomeOf, uraised>>
vars == <<orchVars, reqVars, manyVars, fuzzVars, loopVars, dnsVars, unitVars>>

-----------------------------------------------------------------------------
(* The orchestrator                                                        *)

\* The registry, in the order of the dict literal.
Registry == <<"asn", "dns", "services", "cdn", "servers">>

Units == {Registry[i] : i \in 1..Len(Registry)}

\* What the CLI or another caller may pass to enumerate_module.
ModuleNames == Units \cup {"unknown"}

NoExc == [point |-> "none", unit |-> "none"]

\* An exception a unit raises; str(e) is what the handlers store.
Exc(p, u) == [point |-> p, unit |-> u]

Str(e) == <<e.unit, e.point>>

\* A UnitResult as enumerate() returns it: complete, or degraded to partial data.
UnitResults == {[kind |-> "result", val |-> "full"], [kind |-> "result", val |-> "partial"]}

NoResult == [kind |-> "none", val |-> "none"]

\* {'error': str(e)}
ErrorEntry(e) == [kind |-> "error", val |-> Str(e)]

\* results['results'] = {} at the start of either coroutine
EmptyDict == [kind |-> "empty", val |-> "none"]

\* Nothing was handed back (yet); and the dict a coroutine returned.
NoReport == [given |-> FALSE, results |-> EmptyDict]
Report(r) == [given |-> TRUE, results |-> r]

\* The task of unit u ends: it is the first to end if none has yet.
Ended(u) == first' = IF first = "none" THEN u ELSE first

\* Variant of Put: only an empty dict takes an entry.
PutIfEmpty(d, k, v) ==
    IF DOMAIN d = {} THEN [x \in {k} |-> v] ELSE d

\* d[k] = v on a dict
Put(d, k, v) == [x \in DOMAIN d \cup {k} |-> IF x = k THEN v ELSE d[x]]

OrchStart ==
    /\ call = "none"
    /\ module = "none"
    /\ cstate = "idle"
    /\ built = 0
    /\ upc = [u \in Units |-> "none"]
    /\ pending = [u \in Units |-> NoExc]
    /\ results = <<>>
    /\ execution_time = {}
    /\ moduleResults = EmptyDict
    /\ moduleTimed = FALSE
    /\ raised = NoExc
    /\ enumRet = [u \in Units |-> NoResult]
    /\ failed = [u \in Units |-> <<>>]
    /\ events = [u \in Units |-> <<>>]
    /\ report = NoReport

\* The order in which the tasks end is not kept.
OrchInit == OrchStart /\ first = "untracked"

\* enumerate_all is called: the results skeleton is built.
EnumerateAll ==
    /\ cstate = "idle"
    /\ call' = "all"
    /\ cstate' = "constructing"
    /\ UNCHANGED <<module, built, upc, pending, results, execution_time,
                   moduleResults, moduleTimed, raised, enumRet, failed>>
    /\ UNCHANGED <<events, report, first>>
    /\ UNCHANGED <<reqVars, manyVars, fuzzVars, loopVars, dnsVars, unitVars>>

\* One entry of the enumerators dict literal: the constructor returns or raises.
\* The literal is no part of a try block, so a raise leaves enumerate_all.
\* After the last entry the tasks are made and gathered.
ConstructInAll ==
    /\ call = "all"
    /\ cstate = "constructing"
    /\ built < Len(Registry)
    /\ LET u == Registry[built + 1] IN
       \E ok \in BOOLEAN :
          IF ok
          THEN /\ built' = built + 1
               /\ IF built + 1 = Len(Registry)
                  THEN /\ cstate' = "running"
                       /\ upc' = [x \in Units |-> "start"]
                  ELSE UNCHANGED <<cstate, upc>>
               /\ events' = [events EXCEPT ![u] = @ \o <<"executor">>]
               /\ UNCHANGED <<raised, failed>>
          ELSE /\ cstate' = "raised"
               /\ raised' = Exc("construct", u)
               /\ failed' = [failed EXCEPT ![u] = Append(@, Exc("construct", u))]
               /\ UNCHANGED <<built, upc, events>>
    /\ UNCHANGED <<call, module, pending, results, execution_time,
                   moduleResults, moduleTimed, enumRet>>
    /\ UNCHANGED <<report, first>>
    /\ UNCHANGED <<reqVars, manyVars, fuzzVars, loopVars, dnsVars, unitVars>>

\* Variant of HandleError: the handler logs and stores nothing.
HandleErrorDropped(u, e) ==
    results' = results

\* Variant of HandleError: the handler assigns the whole of results['results'],
\* as enumerate_module's handler does (line 137).
HandleErrorClobber(u, e) ==
    results' = Put(<<>>, u, ErrorEntry(e))

\* except Exception as e: results['results'][name] = {'error': str(e)}
HandleError(u, e) ==
    results' = Put(results, u, ErrorEntry(e))

\* run_enumerator up to the first await inside the block: __aenter__ returns,
\* or raises into the except clause (and then __aexit__ is not run).
Acquire(u) ==
    /\ call = "all"
    /\ cstate = "running"
    /\ upc[u] = "start"
    /\ \E ok \in BOOLEAN :
          IF ok
          THEN /\ upc' = [upc EXCEPT ![u] = "entered"]
               /\ events' = [events EXCEPT ![u] = @ \o <<"session">>]
               /\ UNCHANGED <<results, failed, first>>
          ELSE /\ HandleError(u, Exc("acquire", u))
               /\ failed' = [failed EXCEPT ![u] = Append(@, Exc("acquire", u))]
               /\ upc' = [upc EXCEPT ![u] = "done"]
               /\ Ended(u)
               /\ UNCHANGED events
    /\ UNCHANGED <<call, module, cstate, built, pending, execution_time,
                   moduleResults, moduleTimed, raised, enumRet>>
    /\ UNCHANGED report
    /\ UNCHANGED <<reqVars, manyVars, fuzzVars, loopVars, dnsVars, unitVars>>

\* await enumerator.enumerate() completes: its value is stored under the
\* unit's name and the elapsed time recorded; or it raises, and the
\* exception travels to __aexit__.
Enumerate(u) ==
    /\ call = "all"
    /\ cstate = "running"
    /\ upc[u] = "entered"
    /\ \/ \E r \in UnitResults :
             /\ results' = Put(results, u, r)
             /\ execution_time' = execution_time \cup {u}
             /\ enumRet' = [enumRet EXCEPT ![u] = r]
             /\ UNCHANGED <<pending, failed>>
       \/ /\ pending' = [pending EXCEPT ![u] = Exc("enumerate", u)]
          /\ failed' = [failed EXCEPT ![u] = Append(@, Exc("enumerate", u))]
          /\ UNCHANGED <<results, execution_time, enumRet>>
    /\ upc' = [upc EXCEPT ![u] = "exiting"]
    /\ UNCHANGED <<call, module, cstate, built, moduleResults, moduleTimed, raised>>
    /\ events' = [events EXCEPT ![u] = @ \o <<"enumerate">>]
    /\ UNCHANGED <<report, first>>
    /\ UNCHANGED <<reqVars, manyVars, fuzzVars, loopVars, dnsVars, unitVars>>

\* What __aexit__ does when session.close() returns: the session is closed,
\* then the executor shut down.  When close() raises, shutdown() is not reached.
AExitEvents == <<"closed", "shutdown">>

\* __aexit__: session.close() and executor.shutdown().  It returns None, so a
\* travelling exception goes on to the except clause; when close() raises,
\* that exception goes there instead.  Then finally: pbar.update(1).
Release(u) ==
    /\ call = "all"
    /\ cstate = "running"
    /\ upc[u] = "exiting"
    /\ \E ok \in BOOLEAN :
          IF ok
          THEN /\ IF pending[u] # NoExc
                  THEN HandleError(u, pending[u])
                  ELSE UNCHANGED results
               /\ UNCHANGED failed
               /\ events' = [events EXCEPT ![u] = @ \o AExitEvents]
          ELSE /\ HandleError(u, Exc("release", u))
               /\ failed' = [failed EXCEPT ![u] = Append(@, Exc("release", u))]
               /\ UNCHANGED events
    /\ pending' = [pending EXCEPT ![u] = NoExc]
    /\ upc' = [upc EXCEPT ![u] = "done"]
    /\ UNCHANGED <<call, module, cstate, built, execution_time,
                   moduleResults, moduleTimed, raised, enumRet>>
    /\ Ended(u)
    /\ UNCHANGED report
    /\ UNCHANGED <<reqVars, manyVars, fuzzVars, loopVars, dnsVars, unitVars>>

\* await asyncio.gather(*tasks) completes when every task has; then
\* pbar.close() and return results.
GatherDone == \A u \in Units : upc[u] = "done"

ReturnAll ==
    /\ call = "all"
    /\ cstate = "running"
    /\ GatherDone
    /\ cstate' = "returned"
    /\ UNCHANGED <<call, module, built, upc, pending, results, execution_time,
                   moduleResults, moduleTimed, raised, enumRet, failed>>
    /\ report' = Report(results)
    /\ UNCHANGED <<events, first>>
    /\ UNCHANGED <<reqVars, manyVars, fuzzVars, loopVars, dnsVars, unitVars>>

\* Variant of InRegistry: the name is not checked.
InRegistryAny(m) == TRUE

\* if module not in enumerators
InRegistry(m) == m \in Units

\* enumerate_module is called: the name is checked against the registry
\* before anything else; an unknown name raises ValueError at once.
EnumerateModule ==
    /\ cstate = "idle"
    /\ \E m \in ModuleNames :
          /\ call' = "one"
          /\ module' = m
          /\ IF ~InRegistry(m)
             THEN /\ cstate' = "raised"
                  /\ raised' = Exc("invalid module", m)
                  /\ UNCHANGED upc
             ELSE /\ cstate' = "running"
                  /\ upc' = [upc EXCEPT ![m] = "construct"]
                  /\ UNCHANGED raised
    /\ UNCHANGED <<built, pending, results, execution_time, moduleResults,
                   moduleTimed, enumRet, failed>>
    /\ UNCHANGED <<events, report, first>>
    /\ UNCHANGED <<reqVars, manyVars, fuzzVars, loopVars, dnsVars, unitVars>>

\* except Exception as e: results['results'] = {'error': str(e)}; return results
HandleModuleError(e) ==
    /\ moduleResults' = ErrorEntry(e)
    /\ cstate' = "returned"
    /\ report' = Report(ErrorEntry(e))

\* enumerator = enumerators[module](self.token), inside the try block.
ConstructInModule ==
    /\ call = "one"
    /\ cstate = "running"
    /\ upc[module] = "construct"
    /\ \E ok \in BOOLEAN :
          IF ok
          THEN /\ upc' = [upc EXCEPT ![module] = "start"]
               /\ events' = [events EXCEPT ![module] = @ \o <<"executor">>]
               /\ UNCHANGED <<moduleResults, cstate, failed, report>>
          ELSE /\ HandleModuleError(Exc("construct", module))
               /\ failed' = [failed EXCEPT ![module] = Append(@, Exc("construct", module))]
               /\ upc' = [upc EXCEPT ![module] = "done"]
               /\ UNCHANGED events
    /\ UNCHANGED <<call, module, built, pending, results, execution_time,
                   moduleTimed, raised, enumRet, first>>
    /\ UNCHANGED <<reqVars, manyVars, fuzzVars, loopVars, dnsVars, unitVars>>

\* async with enumerator: __aenter__ returns or raises.
AcquireInModule ==
    /\ call = "one"
    /\ cstate = "running"
    /\ upc[module] = "start"
    /\ \E ok \in BOOLEAN :
          IF ok
          THEN /\ upc' = [upc EXCEPT ![module] = "entered"]
               /\ events' = [events EXCEPT ![module] = @ \o <<"session">>]
               /\ UNCHANGED <<moduleResults, cstate, failed, report>>
          ELSE /\ HandleModuleError(Exc("acquire", module))
               /\ failed' = [failed EXCEPT ![module] = Append(@, Exc("acquire", module))]
               /\ upc' = [upc EXCEPT ![module] = "done"]
               /\ UNCHANGED events
    /\ UNCHANGED <<call, module, built, pending, results, execution_time,
                   moduleTimed, raised, enumRet, first>>
    /\ UNCHANGED <<reqVars, manyVars, fuzzVars, loopVars, dnsVars, unitVars>>

\* results['results'] = await enumerator.enumerate()
EnumerateInModule ==
    /\ call = "one"
    /\ cstate = "running"
    /\ upc[module] = "entered"
    /\ \/ \E r \in UnitResults :
             /\ moduleResults' = r
             /\ moduleTimed' = TRUE
             /\ enumRet' = [enumRet EXCEPT ![module] = r]
             /\ UNCHANGED <<pending, failed>>
       \/ /\ pending' = [pending EXCEPT ![module] = Exc("enumerate", module)]
          /\ failed' = [failed EXCEPT ![module] = Append(@, Exc("enumerate", module))]
          /\ UNCHANGED <<moduleResults, moduleTimed, enumRet>>
    /\ upc' = [upc EXCEPT ![module] = "exiting"]
    /\ UNCHANGED <<call, module, cstate, built, results, execution_time, raised>>
    /\ events' = [events EXCEPT ![module] = @ \o <<"enumerate">>]
    /\ UNCHANGED <<report, first>>
    /\ UNCHANGED <<reqVars, manyVars, fuzzVars, loopVars, dnsVars, unitVars>>

\* __aexit__, then the except clause if an exception travels, then return results.
ReleaseInModule ==
    /\ call = "one"
    /\ cstate = "running"
    /\ upc[module] = "exiting"
    /\ \E ok \in BOOLEAN :
          IF ok
          THEN /\ IF pending[module] # NoExc
                  THEN HandleModuleError(pending[module])
                  ELSE /\ cstate' = "returned"
                       /\ report' = Report(moduleResults)
                       /\ UNCHANGED moduleResults
               /\ UNCHANGED failed
               /\ events' = [events EXCEPT ![module] = @ \o AExitEvents]
          ELSE /\ HandleModuleError(Exc("release", module))
               /\ failed' = [failed EXCEPT ![module] = Append(@, Exc("release", module))]
               /\ UNCHANGED events
    /\ pending' = [pending EXCEPT ![module] = NoExc]
    /\ upc' = [upc EXCEPT ![module] = "done"]
    /\ UNCHANGED <<call, module, built, results, execution_time, moduleTimed,
                   raised, enumRet, first>>
    /\ UNCHANGED <<reqVars, manyVars, fuzzVars, loopVars, dnsVars, unitVars>>

-----------------------------------------------------------------------------
(* The request client: BaseEnumerator._make_request                        *)

\* retries = 3
Retries == 3

\* self.rate_limit_delay = 0.5, in ms
RateLimitDelay == 500

\* await asyncio.sleep(1) after a ClientError, in ms
TransportDelay == 1000

\* The largest whole number of seconds a Retry-After header carries here.
MaxRetryAfter == 2

\* How late, at most, asyncio.sleep wakes the task, in ms.
MaxJitter == 1

\* Header values are strings; the default handed to headers.get is a float.
StrVal(s) == [type |-> "str", str |-> s, ms |-> 0]
FloatVal(ms) == [type |-> "float", str |-> "", ms |-> ms]

Absent == [type |-> "absent", str |-> "", ms |-> 0]

\* Retry-After: delay-seconds, or an HTTP-date (RFC 7231, 7.1.3).
HttpDate == "Wed, 21 Oct 2015 07:28:00 GMT"

RetryAfterHeaders ==
    {Absent} \cup {StrVal(ToString(n)) : n \in 0..MaxRetryAfter} \cup {StrVal(HttpDate)}

\* response.headers.get('Retry-After', self.rate_limit_delay)
HeadersGet(resp, default) ==
    IF resp.retry_after = Absent THEN default ELSE resp.retry_after

\* float(x) is defined on a float and on a string that spells a number;
\* on any other string it raises ValueError.
FloatDefined(v) ==
    \/ v.type = "float"
    \/ v.type = "str" /\ \E n \in 0..MaxRetryAfter : ToString(n) = v.str

\* float(x), in ms
Float(v) ==
    IF v.type = "float"
    THEN v.ms
    ELSE 1000 * (CHOOSE n \in 0..MaxRetryAfter : ToString(n) = v.str)

\* Variant of RetryAfterOf: the header is not read.
RetryAfterOfDefault(resp) == FloatVal(RateLimitDelay)

\* The argument of float() in
\* retry_after = float(response.headers.get('Retry-After', self.rate_limit_delay))
RetryAfterOf(resp) == HeadersGet(resp, FloatVal(RateLimitDelay))

\* Python values _make_request returns.
NoneValue == [type |-> "NoneType", items |-> <<>>]
OkDict == [type |-> "dict", items |-> <<<<"ok", TRUE>>>>]

JsonOk == "{\"ok\": true}"
JsonNull == "null"
NotJson == "<html>Service</html>"

\* json.loads on the bodies it accepts
Loads(body) == IF body = JsonOk THEN OkDict ELSE NoneValue

Parseable(body) == body \in {JsonOk, JsonNull}

\* An HTTP response: status, the Retry-After header, Content-Type and body.
Http(st, ra, ct, body) ==
    [exc |-> "none", status |-> st, retry_after |-> ra, content_type |-> ct, body |-> body]

\* session.get(...) raising instead of answering.
Failure(e) ==
    [exc |-> e, status |-> 0, retry_after |-> Absent, content_type |-> "", body |-> ""]

\* What an attempt can meet.  ClientConnectorError is aiohttp's DNS or
\* connect failure and ServerDisconnectedError a reset connection;
\* TimeoutError is asyncio.TimeoutError, which aiohttp raises when the
\* session's total timeout expires.
Responses ==
    {Http(200, Absent, ct, b) : ct \in {"application/json", "text/html"},
                                b \in {JsonOk, JsonNull, NotJson}}
    \cup {Http(st, Absent, "text/html", NotJson) : st \in {404, 403, 500}}
    \cup {Http(429, ra, "application/json", JsonNull) : ra \in RetryAfterHeaders}
    \cup {Failure(e) : e \in {"ClientConnectorError", "ServerDisconnectedError",
                              "TimeoutError"}}

\* except aiohttp.ClientError: the aiohttp exceptions, ContentTypeError among
\* them; asyncio.TimeoutError, ValueError and json.JSONDecodeError are none.
IsClientError(e) ==
    e \in {"ClientConnectorError", "ServerDisconnectedError", "ContentTypeError"}

\* Variant of IsRateLimited: a 500 is backed off and retried too.
IsRateLimitedOr5xx(resp) == resp.status \in {429, 500}

\* if response.status == 429
IsRateLimited(resp) == resp.status = 429

ReqInit ==
    /\ rpc = "idle"
    /\ session \in BOOLEAN
    /\ retries = 0
    /\ wake = "none"
    /\ sleepFor = 0
    /\ now = 0
    /\ outcome = [kind |-> "none", value |-> NoneValue]
    /\ observed = <<>>
    /\ attemptAt = <<>>
    /\ sleeps = <<>>

\* The call, up to the first test of the loop condition.
MakeRequest ==
    /\ rpc = "idle"
    /\ session' = TRUE
    /\ retries' = Retries
    /\ rpc' = "loop"
    /\ UNCHANGED <<wake, sleepFor, now, outcome, observed, attemptAt, sleeps>>
    /\ UNCHANGED <<orchVars, manyVars, fuzzVars, loopVars, dnsVars, unitVars>>

\* return v
Return(v) ==
    /\ outcome' = [kind |-> "return", value |-> v]
    /\ rpc' = "done"
    /\ UNCHANGED <<wake, sleepFor, sleeps>>

\* An exception no clause catches leaves _make_request.
Raise(e) ==
    /\ outcome' = [kind |-> "raise", value |-> [type |-> e, items |-> <<>>]]
    /\ rpc' = "done"
    /\ UNCHANGED <<retries, wake, sleepFor, sleeps>>

\* await asyncio.sleep(ms), then `after`
Sleep(cause, ms, after) ==
    /\ rpc' = "sleep"
    /\ sleepFor' = ms
    /\ wake' = after
    /\ sleeps' = Append(sleeps, <<cause, ms, Len(observed) + 1>>)
    /\ UNCHANGED outcome

\* The loop condition once `retries` is r: another turn, or the return None
\* after the loop.
LoopOrExit(r) ==
    IF r > 0
    THEN /\ rpc' = "loop"
         /\ UNCHANGED <<outcome, wake, sleepFor, sleeps>>
    ELSE Return(NoneValue)

\* except aiohttp.ClientError as e: retries -= 1; sleep(1) if any are left
OnClientError ==
    /\ retries' = retries - 1
    /\ IF retries - 1 > 0
       THEN Sleep("transport", TransportDelay, "loop")
       ELSE LoopOrExit(retries - 1)

\* An exception raised inside the try block.
OnException(e) ==
    IF IsClientError(e) THEN OnClientError ELSE Raise(e)

\* The 429 branch, up to its sleep.
OnRateLimited(resp) ==
    IF FloatDefined(RetryAfterOf(resp))
    THEN /\ Sleep("429", Float(RetryAfterOf(resp)), "dec429")
         /\ UNCHANGED retries
    ELSE OnException("ValueError")

\* Variant of OnOk: the body is not read, None is returned.
OnOkDropped(resp) ==
    /\ Return(NoneValue)
    /\ UNCHANGED retries

\* return await response.json(): aiohttp checks the Content-Type, then
\* parses the body.
OnOk(resp) ==
    IF resp.content_type # "application/json"
    THEN OnException("ContentTypeError")
    ELSE IF ~Parseable(resp.body)
    THEN OnException("JSONDecodeError")
    ELSE /\ Return(Loads(resp.body))
         /\ UNCHANGED retries

\* Variant of OtherStatusValue: the status is handed to the caller.
OtherStatusValueCarrying(resp) ==
    [type |-> "outcome", items |-> <<<<"status", resp.status>>>>]

\* else: self.logger.error(...); return None
OtherStatusValue(resp) == NoneValue

\* One turn of the loop: the request is sent and answered, or fails.
Attempt ==
    /\ rpc = "loop"
    /\ retries > 0
    /\ \E resp \in Responses :
          /\ observed' = Append(observed, resp)
          /\ attemptAt' = Append(attemptAt, now)
          /\ IF resp.exc # "none"
             THEN OnException(resp.exc)
             ELSE IF IsRateLimited(resp)
             THEN OnRateLimited(resp)
             ELSE IF resp.status = 200
             THEN OnOk(resp)
             ELSE IF resp.status = 404
             THEN /\ Return(NoneValue)
                  /\ UNCHANGED retries
             ELSE /\ Return(OtherStatusValue(resp))
                  /\ UNCHANGED retries
    /\ UNCHANGED <<session, now>>
    /\ UNCHANGED <<orchVars, manyVars, fuzzVars, loopVars, dnsVars, unitVars>>

\* asyncio.sleep returns, no earlier than asked; after a 429 follow
\* retries -= 1 and continue.
Wake ==
    /\ rpc = "sleep"
    /\ \E j \in 0..MaxJitter : now' = now + sleepFor + j
    /\ IF wake = "dec429"
       THEN /\ retries' = retries - 1
            /\ LoopOrExit(retries - 1)
       ELSE /\ UNCHANGED retries
            /\ LoopOrExit(retries)
    /\ UNCHANGED <<session, observed, attemptAt>>
    /\ UNCHANGED <<orchVars, manyVars, fuzzVars, loopVars, dnsVars, unitVars>>

-----------------------------------------------------------------------------
(* The interrupt: Ctrl-C while enumerate_all runs                          *)

\* The task of a unit when asyncio.run cancels what is left: CancelledError
\* is raised at the task's await.  Inside `async with`, __aexit__ runs;
\* `except Exception` does not catch CancelledError, so no entry is stored.
CancelledEvents(u) ==
    IF upc[u] \in {"entered", "exiting"} THEN events[u] \o AExitEvents ELSE events[u]

\* KeyboardInterrupt ends asyncio.run(main()): the tasks left are cancelled,
\* main's `except Exception` does not catch it, and the handler under
\* __main__ prints a line and exits with 1.  save_results is not reached and
\* the results dict of enumerate_all's frame is dropped.
Interrupt ==
    /\ call = "all"
    /\ cstate \in {"constructing", "running"}
    /\ cstate' = "raised"
    /\ raised' = Exc("KeyboardInterrupt", "none")
    /\ upc' = [u \in Units |-> IF upc[u] \in {"none", "done"} THEN upc[u] ELSE "cancelled"]
    /\ events' = [u \in Units |-> CancelledEvents(u)]
    /\ pending' = [u \in Units |-> NoExc]
    /\ UNCHANGED <<call, module, built, results, execution_time, moduleResults,
                   moduleTimed, enumRet, failed, report, first>>
    /\ UNCHANGED <<reqVars, manyVars, fuzzVars, loopVars, dnsVars, unitVars>>

-----------------------------------------------------------------------------
(* BaseEnumerator._parallel_requests                                       *)

\* The longest list of urls handed to _parallel_requests here.
MaxTargets == 3

Target(i) == "https://discord.com/api/v9/" \o ToString(i)

\* How a call of _make_request ends: with a dict or None, or with one of the
\* exceptions that no clause of it catches.
MakeRequestOutcomes ==
    {[kind |-> "return", value |-> v] : v \in {OkDict, NoneValue}}
    \cup {[kind |-> "raise", value |-> [type |-> e, items |-> <<>>]] :
             e \in {"TimeoutError", "ValueError", "JSONDecodeError"}}

NotYet == [kind |-> "none", value |-> NoneValue]

\* isinstance(r, Exception), on what gather(return_exceptions=True) collected
IsException(r) == r.kind = "raise"

ManyInit ==
    /\ mpc = "idle"
    /\ urls = <<>>
    /\ tasks = <<>>
    /\ gathered = <<>>
    /\ manyRet = <<>>
    /\ mnow = 0
    /\ issuedAt = <<>>

\* The call: one task of fetch_with_delay per url, then await gather.
ParallelRequests ==
    /\ mpc = "idle"
    /\ \E n \in 0..MaxTargets :
          /\ urls' = [i \in 1..n |-> Target(i)]
          /\ tasks' = [i \in 1..n |-> "sleeping"]
          /\ gathered' = [i \in 1..n |-> NotYet]
          /\ issuedAt' = [i \in 1..n |-> -1]
    /\ mpc' = "gather"
    /\ UNCHANGED <<manyRet, mnow>>
    /\ UNCHANGED <<orchVars, reqVars, fuzzVars, loopVars, dnsVars, unitVars>>

\* How long the clock is let run here, in delays.
MaxTicks == 2

\* Time passes while gather is awaited.
Elapse ==
    /\ mpc = "gather"
    /\ mnow < MaxTicks * RateLimitDelay
    /\ mnow' = mnow + RateLimitDelay
    /\ UNCHANGED <<mpc, urls, tasks, gathered, manyRet, issuedAt>>
    /\ UNCHANGED <<orchVars, reqVars, fuzzVars, loopVars, dnsVars, unitVars>>

\* Variant of DelayOf: the tasks are spaced a delay apart.
DelayOfSpaced(i) == i * RateLimitDelay

\* The argument of the sleep of task i: self.rate_limit_delay.
DelayOf(i) == RateLimitDelay

\* fetch_with_delay: asyncio.sleep(self.rate_limit_delay) returns, the delay
\* after the task was made, or later; the request is issued.
FetchWake(i) ==
    /\ mpc = "gather"
    /\ tasks[i] = "sleeping"
    /\ mnow >= DelayOf(i)
    /\ tasks' = [tasks EXCEPT ![i] = "requesting"]
    /\ issuedAt' = [issuedAt EXCEPT ![i] = mnow]
    /\ UNCHANGED <<mpc, urls, gathered, manyRet, mnow>>
    /\ UNCHANGED <<orchVars, reqVars, fuzzVars, loopVars, dnsVars, unitVars>>

\* fetch_with_delay: return await self._make_request(url, ...); the task
\* ends with what the request returned or raised.
FetchDone(i) ==
    /\ mpc = "gather"
    /\ tasks[i] = "requesting"
    /\ \E o \in MakeRequestOutcomes : gathered' = [gathered EXCEPT ![i] = o]
    /\ tasks' = [tasks EXCEPT ![i] = "done"]
    /\ UNCHANGED <<mpc, urls, manyRet, mnow, issuedAt>>
    /\ UNCHANGED <<orchVars, reqVars, fuzzVars, loopVars, dnsVars, unitVars>>

\* gather(*tasks, return_exceptions=True) completes, in task order;
\* return [r for r in results if not isinstance(r, Exception)]
GatherReturn ==
    /\ mpc = "gather"
    /\ \A i \in DOMAIN tasks : tasks[i] = "done"
    /\ manyRet' = SelectSeq(gathered, LAMBDA r : ~IsException(r))
    /\ mpc' = "done"
    /\ UNCHANGED <<urls, tasks, gathered, mnow, issuedAt>>
    /\ UNCHANGED <<orchVars, reqVars, fuzzVars, loopVars, dnsVars, unitVars>>

-----------------------------------------------------------------------------
(* The CDN fuzzer: CDNFuzzer._fuzz_cdn_paths                               *)

CDN_DOMAINS == <<"cdn.discordapp.com", "media.discordapp.net", "images.discordapp.net">>

CDN_ENDPOINTS ==
    <<"attachments", "avatars", "icons", "banners", "splashes", "emojis", "stickers">>

IMAGE_EXTENSIONS == <<"png", "jpg", "jpeg", "gif", "webp">>

\* string.hexdigits
HexDigits ==
    <<"0", "1", "2", "3", "4", "5", "6", "7", "8", "9",
      "a", "b", "c", "d", "e", "f", "A", "B", "C", "D", "E", "F">>

\* range(5) and k=16
IdCount == 5
IdLen == 16

\* A pattern is the sequence of its literal texts and replacement fields.
Text(s) == [kind |-> "text", s |-> s]
Field(s) == [kind |-> "field", s |-> s]

patterns ==
    << <<Field("id")>>,
       <<Field("id"), Text("."), Field("ext")>>,
       <<Field("id"), Text("/original")>>,
       <<Field("id"), Text("?size=1024")>>,
       <<Field("id"), Text("?width=100&height=100")>>,
       <<Field("endpoint"), Text("/"), Field("id")>>,
       <<Text("avatars/"), Field("id"), Text("/"), Field("id")>> >>

\* pattern.format(id=..., ext=..., endpoint=...): every field is replaced by
\* its argument, an argument no field names is ignored.
RECURSIVE Format(_, _, _, _)
Format(pattern, id, ext, endpoint) ==
    IF pattern = <<>>
    THEN ""
    ELSE LET part == Head(pattern)
             str == IF part.kind = "text" THEN part.s
                    ELSE IF part.s = "id" THEN id
                    ELSE IF part.s = "ext" THEN ext
                    ELSE endpoint
         IN str \o Format(Tail(pattern), id, ext, endpoint)

\* url = f'https://{domain}/{path}'
Url(domain, path) == "https://" \o domain \o "/" \o path

\* The random module is a deterministic generator behind a seed that the
\* interpreter takes from the operating system when it starts.  Here the
\* generator is the linear congruential one of modulus 65537, and a draw
\* below n is the new state modulo n.
RngStep(r) == (75 * r + 74) % 65537

\* How many seeds the operating system may hand out here.
NumSeeds == 2

Seeds == 1..NumSeeds

\* The state of the generator after k draws.
RECURSIVE RngAfter(_, _)
RngAfter(r, k) == IF k = 0 THEN r ELSE RngAfter(RngStep(r), k - 1)

\* ''.join(random.choices(string.hexdigits, k=k)), drawn from state r on
RECURSIVE Choices(_, _)
Choices(r, k) ==
    IF k = 0
    THEN ""
    ELSE HexDigits[(RngStep(r) % Len(HexDigits)) + 1] \o Choices(RngStep(r), k - 1)

\* random.choice(self.CDN_ENDPOINTS), as drawn from state r
Choice(r) == CDN_ENDPOINTS[(RngStep(r) % Len(CDN_ENDPOINTS)) + 1]

EndsWith(s, t) == Len(s) >= Len(t) /\ SubSeq(s, Len(s) - Len(t) + 1, Len(s)) = t

\* How the CDN answers a HEAD request.  "missing": 404 for everything;
\* "images": 200 from a cache for any .png; "limited": 429 for the size
\* variant; "down": no connection for the /original variant; "edge": a
\* cache in front answers 403 for any .jpg and 404 for any .gif, naming
\* itself; "flaky": the /original variant times out, any .png is a 200 from
\* a cache; "offline": no connection for anything; "partial": every request
\* to media.discordapp.net times out.
Networks ==
    {"missing", "images", "limited", "down", "edge", "flaky", "offline", "partial"}

StartsWith(s, t) == Len(s) >= Len(t) /\ SubSeq(s, 1, Len(t)) = t

Answered(st, hs) == [exc |-> "none", status |-> st, headers |-> hs]

Refused(e) == [exc |-> e, status |-> 0, headers |-> {}]

Answer(n, url) ==
    IF n = "offline"
    THEN Refused("ClientConnectorError")
    ELSE IF n = "partial" /\ StartsWith(url, "https://media.discordapp.net/")
    THEN Refused("TimeoutError")
    ELSE IF n \in {"images", "flaky"} /\ EndsWith(url, ".png")
    THEN Answered(200, {"Content-Type", "X-Cache"})
    ELSE IF n = "limited" /\ EndsWith(url, "?size=1024")
    THEN Answered(429, {"Retry-After", "X-Cache-Status"})
    ELSE IF n = "down" /\ EndsWith(url, "/original")
    THEN Refused("ClientConnectorError")
    ELSE IF n = "flaky" /\ EndsWith(url, "/original")
    THEN Refused("TimeoutError")
    ELSE IF n = "edge" /\ EndsWith(url, ".jpg")
    THEN Answered(403, {"Content-Type", "X-CACHE-HITS"})
    ELSE IF n = "edge" /\ EndsWith(url, ".gif")
    THEN Answered(404, {"Content-Type", "x-served-by"})
    ELSE Answered(404, {"Content-Type"})

\* h.lower(), on the header names in use
Lower(h) ==
    CASE h = "X-Cache" -> "x-cache"
      [] h = "X-CACHE-HITS" -> "x-cache-hits"
      [] h = "X-Cache-Status" -> "x-cache-status"
      [] h = "Content-Type" -> "content-type"
      [] h = "Retry-After" -> "retry-after"
      [] OTHER -> h    \* a name with no capital letter in it

\* Variant of IsInteresting: every answer is kept, whatever its status.
IsInterestingAlways(resp) == resp.status = resp.status

\* if response.status not in [404, 403]
IsInteresting(resp) == resp.status \notin {404, 403}

\* Variant of IsVulnerable: the header names are compared as they arrive.
IsVulnerableExactCase(resp) ==
    \E h \in resp.headers : h \in {"x-cache", "x-cache-hits", "x-served-by"}

\* if any(h.lower() in ['x-cache', 'x-cache-hits', 'x-served-by'] for h in response.headers)
IsVulnerable(resp) ==
    \E h \in resp.headers : Lower(h) \in {"x-cache", "x-cache-hits", "x-served-by"}

EmptyFuzz == [interesting |-> <<>>, vulnerable |-> <<>>]

\* The body of `async with session.head(url, ...) as response`.
Record(res, url, resp) ==
    [interesting |->
         IF IsInteresting(resp)
         THEN Append(res.interesting,
                     [url |-> url, status |-> resp.status, headers |-> resp.headers])
         ELSE res.interesting,
     vulnerable |->
         IF IsVulnerable(resp)
         THEN Append(res.vulnerable,
                     [url |-> url, type |-> "information_disclosure", headers |-> resp.headers])
         ELSE res.vulnerable]

HasExt(pattern) == \E k \in DOMAIN pattern : pattern[k] = Field("ext")

\* The four nested for loops, as a step of their indices: the extension
\* runs fastest, the domain slowest.
Carry(p, k, n) ==
    IF p[k] > n THEN [p EXCEPT ![k] = 1, ![k - 1] = @ + 1] ELSE p

LoopStep(p) ==
    Carry(Carry(Carry([p EXCEPT ![4] = @ + 1], 4, Len(IMAGE_EXTENSIONS)),
                3, IdCount),
          2, Len(patterns))

\* Variant of NextPos: a pattern without {ext} is tried with one extension only.
NextPosOncePerPath(p) ==
    IF HasExt(patterns[p[2]])
    THEN LoopStep(p)
    ELSE LoopStep([p EXCEPT ![4] = Len(IMAGE_EXTENSIONS)])

NextPos(p) == LoopStep(p)

\* The outermost loop is exhausted.
LoopOver(p) == p[1] > Len(CDN_DOMAINS)

NoRun == [seed |-> 0, fuzz |-> EmptyFuzz]

\* Apart from how the CDN answers.
FuzzIdle ==
    /\ fpc = "idle"
    /\ run = 1
    /\ seed = 0
    /\ rng = 0
    /\ test_ids = <<>>
    /\ pos = <<1, 1, 1, 1>>
    /\ count = 0
    /\ heads = 0
    /\ fuzz = EmptyFuzz
    /\ answers = <<>>
    /\ fuzzRaised = "none"
    /\ prev = NoRun

FuzzInit == FuzzIdle /\ net \in Networks

\* Variant of Seeded: the generator is left as it stands.
SeededNot(s) == rng

\* The state of the generator in an interpreter that starts with seed s.
Seeded(s) == s

\* _fuzz_cdn_paths is called in an interpreter started with seed s.
Begin(s) ==
    /\ seed' = s
    /\ rng' = Seeded(s)
    /\ test_ids' = <<>>
    /\ pos' = <<1, 1, 1, 1>>
    /\ count' = 0
    /\ heads' = 0
    /\ fuzz' = EmptyFuzz
    /\ answers' = <<>>
    /\ fuzzRaised' = "none"
    /\ fpc' = "ids"

FuzzCdnPaths ==
    /\ fpc = "idle"
    /\ \E s \in Seeds : Begin(s)
    /\ UNCHANGED <<run, net, prev>>
    /\ UNCHANGED <<orchVars, reqVars, manyVars, loopVars, dnsVars, unitVars>>

\* One turn of
\* test_ids = [''.join(random.choices(string.hexdigits, k=16)) for _ in range(5)]
DrawTestId ==
    /\ fpc = "ids"
    /\ test_ids' = Append(test_ids, Choices(rng, IdLen))
    /\ rng' = RngAfter(rng, IdLen)
    /\ fpc' = IF Len(test_ids) + 1 = IdCount THEN "loop" ELSE "ids"
    /\ UNCHANGED <<run, net, seed, pos, count, heads, fuzz, answers, fuzzRaised, prev>>
    /\ UNCHANGED <<orchVars, reqVars, manyVars, loopVars, dnsVars, unitVars>>

\* Variant of IsCaught: only aiohttp's own exceptions are caught, as in
\* _make_request.
IsCaughtClientError(e) == IsClientError(e)

\* except Exception as e: every exception but those that derive from
\* BaseException alone.
IsCaught(e) == e \notin {"CancelledError", "KeyboardInterrupt", "SystemExit"}

\* One turn of the innermost loop: the path is formatted with a freshly
\* drawn endpoint, the URL sent as a HEAD request in a session of its own,
\* and the answer recorded; an exception is logged and the loop goes on.
Probe ==
    /\ fpc = "loop"
    /\ rng' = RngStep(rng)
    /\ count' = count + 1
    /\ heads' = heads + 1
    /\ LET path == Format(patterns[pos[2]], test_ids[pos[3]],
                          IMAGE_EXTENSIONS[pos[4]], Choice(rng))
           url == Url(CDN_DOMAINS[pos[1]], path)
           resp == Answer(net, url)
       IN IF resp.exc # "none" /\ ~IsCaught(resp.exc)
          THEN /\ fpc' = "raised"
               /\ fuzzRaised' = resp.exc
               /\ UNCHANGED <<pos, fuzz, answers>>
          ELSE /\ IF resp.exc # "none"
                  THEN UNCHANGED <<fuzz, answers>>
                  ELSE /\ fuzz' = Record(fuzz, url, resp)
                       /\ answers' = Append(answers, [url |-> url, resp |-> resp])
               /\ IF LoopOver(NextPos(pos))
                  THEN /\ fpc' = "done"
                       /\ UNCHANGED pos
                  ELSE /\ pos' = NextPos(pos)
                       /\ UNCHANGED fpc
               /\ UNCHANGED fuzzRaised
    /\ UNCHANGED <<run, net, seed, test_ids, prev>>
    /\ UNCHANGED <<orchVars, reqVars, manyVars, loopVars, dnsVars, unitVars>>

\* The same call made a second time, in an interpreter of its own, against
\* the same CDN; what the first call returned is kept for comparison.
FuzzAgain ==
    /\ fpc = "done"
    /\ run = 1
    /\ prev' = [seed |-> seed, fuzz |-> fuzz]
    /\ run' = 2
    /\ \E s \in Seeds : Begin(s)
    /\ UNCHANGED net
    /\ UNCHANGED <<orchVars, reqVars, manyVars, loopVars, dnsVars, unitVars>>

-----------------------------------------------------------------------------
(* The event loop under enumerate_all's gather                             *)

\* The units whose enumerate awaits network I/O (aiohttp).  The enumerate of
\* asn and of dns calls socket, ipwhois and dns.resolver directly: it has no
\* await that suspends, and run_in_executor is not used.
Suspending == {"services", "cdn", "servers"}

\* How often, at most, a task is suspended here.
MaxYields == 2

LoopInit ==
    /\ tstate = [u \in Units |-> "ready"]
    /\ yields = [u \in Units |-> 0]

\* The event loop runs the enumerate() of u up to its next await on I/O:
\* the task is suspended and the loop free for another task.
RunToAwait(u) ==
    /\ tstate[u] \in {"ready", "suspended"}
    /\ u \in Suspending
    /\ yields[u] < MaxYields
    /\ tstate' = [tstate EXCEPT ![u] = "suspended"]
    /\ yields' = [yields EXCEPT ![u] = @ + 1]
    /\ UNCHANGED <<orchVars, reqVars, manyVars, fuzzVars, dnsVars, unitVars>>

\* The event loop runs the enumerate() of u to its return.  One with no
\* await that suspends runs from its start; one that awaits I/O has been
\* suspended at least once before.
RunToEnd(u) ==
    /\ tstate[u] \in {"ready", "suspended"}
    /\ u \in Suspending => tstate[u] = "suspended"
    /\ tstate' = [tstate EXCEPT ![u] = "done"]
    /\ UNCHANGED yields
    /\ UNCHANGED <<orchVars, reqVars, manyVars, fuzzVars, dnsVars, unitVars>>

-----------------------------------------------------------------------------
(* The DNS unit: DNSEnumerator.enumerate                                   *)

DISCORD_DOMAINS == <<"discord.com", "discordapp.com", "discord.gg", "discord.media">>

RECORD_TYPES == <<"A", "AAAA", "MX", "NS", "TXT", "CNAME", "SOA">>

common_subdomains ==
    <<"api", "cdn", "media", "gateway", "status", "support", "developer",
      "developers", "canary", "ptb", "staging">>

Items(seq) == {seq[k] : k \in DOMAIN seq}

\* The longest NS answer
MaxNs == 2

\* What a transfer attempt against one nameserver ends in: a zone, a
\* refusal that dnspython reports as a DNSException, or a socket error.
XfrOutcomes == {"ok", "TransferError", "ConnectionRefusedError"}

IsDnsException(e) == e \in {"NoAnswer", "NXDOMAIN", "TransferError"}

\* The resolver and the nameservers as the run finds them.  txtFails: the
\* domains whose TXT lookup raises; dmarcFails: whether the lookups of
\* _dmarc.<domain> raise; xfr: per nameserver of a domain, what a transfer
\* attempt ends in, the empty sequence standing for an NS lookup that
\* raises; hosts: the subdomain labels that resolve.
Worlds ==
    [txtFails : SUBSET Items(DISCORD_DOMAINS),
     dmarcFails : BOOLEAN,
     xfr : UNION {[1..n -> XfrOutcomes] : n \in 0..MaxNs},
     hosts : {{}, {"api", "cdn"}}]

NsName(k, domain) == "ns" \o ToString(k) \o "." \o domain

Raises(e) == [exc |-> e, rdata |-> <<>>]

Rdata(list) == [exc |-> "none", rdata |-> list]

\* dns.resolver.resolve(qname, rdtype) for the names that enumerate asks for:
\* a domain itself, _dmarc.<domain> and <label>.<domain>.
ResolveDomain(w, domain, rdtype) ==
    CASE rdtype = "TXT" ->
             IF domain \in w.txtFails THEN Raises("NoAnswer")
             ELSE Rdata(<<"v=SPF1 -all", "MS=ms1">>)
      [] rdtype = "NS" ->
             IF w.xfr = <<>> THEN Raises("NoAnswer")
             ELSE Rdata([k \in DOMAIN w.xfr |-> NsName(k, domain)])
      [] rdtype = "CNAME" -> Raises("NoAnswer")
      [] OTHER -> Rdata(<<rdtype \o " " \o domain>>)

ResolveDmarc(w, domain) ==
    IF w.dmarcFails THEN Raises("NXDOMAIN") ELSE Rdata(<<"v=DMARC1; p=reject">>)

ResolveHost(w, label, domain) ==
    IF label \in w.hosts THEN Rdata(<<"A " \o label \o "." \o domain>>)
    ELSE Raises("NXDOMAIN")

\* str.lower(), on the letters that the TXT answers hold in upper case
LowerLetter(c) ==
    CASE c = "S" -> "s"
      [] c = "P" -> "p"
      [] c = "F" -> "f"
      [] c = "M" -> "m"
      [] c = "D" -> "d"
      [] c = "A" -> "a"
      [] c = "R" -> "r"
      [] c = "C" -> "c"
      [] OTHER -> c

RECURSIVE LowerText(_)
LowerText(t) ==
    IF t = "" THEN ""
    ELSE LowerLetter(SubSeq(t, 1, 1)) \o LowerText(SubSeq(t, 2, Len(t)))

\* sub in t
Contains(t, sub) ==
    \E k \in 1..(Len(t) - Len(sub) + 1) : SubSeq(t, k, k + Len(sub) - 1) = sub

\* [str(r) for r in spf_records if 'spf' in str(r).lower()]
SpfOf(list) == SelectSeq(list, LAMBDA r : Contains(LowerText(r), "spf"))

\* {}: the dict without a key
EmptyMap == [k \in {} |-> k]

EmptyDomainResults == [records |-> EmptyMap, security |-> EmptyMap, extra |-> EmptyMap]

EmptyDnsResults ==
    [dns_records |-> EmptyMap, nameservers |-> EmptyMap, subdomains |-> EmptyMap,
     security_records |-> EmptyMap]

Domain == DISCORD_DOMAINS[dom]

DnsStart ==
    /\ dpc = "idle"
    /\ dom = 1
    /\ nameservers = <<>>
    /\ nsi = 1
    /\ domain_results = EmptyDomainResults
    /\ dnsResults = EmptyDnsResults
    /\ dnsRaised = "none"
    /\ lookups = {}
    /\ xfrs = {}

\* The DNS unit, in the specifications that leave it at rest.
DnsIdle ==
    DnsStart /\ world = [txtFails |-> {}, dmarcFails |-> FALSE, xfr |-> <<>>, hosts |-> {}]

DnsInit == DnsStart /\ world \in Worlds

\* enumerate is called: the results dict is made and the first domain begun.
DnsEnumerate ==
    /\ dpc = "idle"
    /\ dpc' = "records"
    /\ UNCHANGED <<world, dom, nameservers, nsi, domain_results, dnsResults, dnsRaised,
                   lookups, xfrs>>
    /\ UNCHANGED <<orchVars, reqVars, manyVars, fuzzVars, loopVars, unitVars>>

\* The loop over RECORD_TYPES, each lookup in a try of its own.
Records ==
    /\ dpc = "records"
    /\ LET found == {t \in Items(RECORD_TYPES) : ResolveDomain(world, Domain, t).exc = "none"}
       IN domain_results' =
              [EmptyDomainResults EXCEPT
                  !.records = [t \in found |-> ResolveDomain(world, Domain, t).rdata]]
    /\ lookups' = lookups \cup {<<Domain, t>> : t \in Items(RECORD_TYPES)}
    /\ dpc' = "ns"
    /\ UNCHANGED <<world, dom, nameservers, nsi, dnsResults, dnsRaised, xfrs>>
    /\ UNCHANGED <<orchVars, reqVars, manyVars, fuzzVars, loopVars, unitVars>>

\* "Get nameservers"
Nameservers ==
    /\ dpc = "ns"
    /\ LET ns_records == ResolveDomain(world, Domain, "NS")
       IN dnsResults' =
              IF ns_records.exc = "none"
              THEN [dnsResults EXCEPT !.nameservers = Put(@, Domain, ns_records.rdata)]
              ELSE dnsResults
    /\ lookups' = lookups \cup {<<Domain, "NS">>}
    /\ dpc' = "security"
    /\ UNCHANGED <<world, dom, nameservers, nsi, domain_results, dnsRaised, xfrs>>
    /\ UNCHANGED <<orchVars, reqVars, manyVars, fuzzVars, loopVars, unitVars>>

\* The DMARC lookup is the second statement of the try that the SPF lookup
\* opens: it is reached when the SPF lookup did not raise.
DmarcReached(spf) == spf.exc = "none"

\* "Check for security records": one try around the SPF lookup and the
\* DMARC lookup, except DNSException: pass.
SecurityRecords ==
    /\ dpc = "security"
    /\ LET spf_records == ResolveDomain(world, Domain, "TXT")
           dmarc_records == ResolveDmarc(world, Domain)
           withSpf == IF spf_records.exc = "none"
                      THEN Put(domain_results.security, "spf", SpfOf(spf_records.rdata))
                      ELSE domain_results.security
           withBoth == IF DmarcReached(spf_records) /\ dmarc_records.exc = "none"
                       THEN Put(withSpf, "dmarc", dmarc_records.rdata)
                       ELSE withSpf
       IN /\ domain_results' = [domain_results EXCEPT !.security = withBoth]
          /\ lookups' = lookups \cup {<<Domain, "TXT">>}
                            \cup IF DmarcReached(spf_records)
                                 THEN {<<"_dmarc." \o Domain, "TXT">>}
                                 ELSE {}
    /\ dpc' = "zone"
    /\ UNCHANGED <<world, dom, nameservers, nsi, dnsResults, dnsRaised, xfrs>>
    /\ UNCHANGED <<orchVars, reqVars, manyVars, fuzzVars, loopVars, unitVars>>

\* "Try zone transfer": the NS lookup that opens the outer try.
ZoneTransfer ==
    /\ dpc = "zone"
    /\ LET ns == ResolveDomain(world, Domain, "NS")
       IN IF ns.exc = "none"
          THEN /\ nameservers' = ns.rdata
               /\ nsi' = 1
               /\ dpc' = "xfr"
          ELSE /\ dpc' = "subs"
               /\ UNCHANGED <<nameservers, nsi>>
    /\ lookups' = lookups \cup {<<Domain, "NS">>}
    /\ UNCHANGED <<world, dom, domain_results, dnsResults, dnsRaised, xfrs>>
    /\ UNCHANGED <<orchVars, reqVars, manyVars, fuzzVars, loopVars, unitVars>>

\* Variant of CaughtInLoop: the inner handler is except DNSException, like
\* the outer one.
CaughtInLoopDnsOnly(e) == IsDnsException(e)

\* The inner handler is a bare except: whatever the attempt raises is caught.
CaughtInLoop(e) == e = e

\* One turn of `for ns in nameservers`: a transfer attempt against one
\* nameserver.  What the inner handler does not catch goes to the outer
\* one, which passes on a DNSException, and out of enumerate otherwise.
Xfr ==
    /\ dpc = "xfr"
    /\ xfrs' = xfrs \cup {<<Domain, nameservers[nsi]>>}
    /\ LET e == world.xfr[nsi]
           more == nsi < Len(nameservers)
       IN IF e = "ok" \/ CaughtInLoop(e)
          THEN /\ domain_results' =
                      IF e = "ok"
                      THEN [domain_results EXCEPT
                               !.extra = Put(@, "zone_transfer", <<"@", "www">>)]
                      ELSE domain_results
               /\ nsi' = IF more THEN nsi + 1 ELSE nsi
               /\ dpc' = IF more THEN "xfr" ELSE "subs"
               /\ UNCHANGED dnsRaised
          ELSE /\ dpc' = IF IsDnsException(e) THEN "subs" ELSE "raised"
               /\ dnsRaised' = IF IsDnsException(e) THEN "none" ELSE e
               /\ UNCHANGED <<domain_results, nsi>>
    /\ UNCHANGED <<world, dom, nameservers, dnsResults, lookups>>
    /\ UNCHANGED <<orchVars, reqVars, manyVars, fuzzVars, loopVars, unitVars>>

\* "Common subdomain enumeration", the two stores that end the domain's
\* turn, and the return after the last domain.
Subdomains ==
    /\ dpc = "subs"
    /\ LET found_subdomains ==
               SelectSeq(common_subdomains,
                         LAMBDA l : ResolveHost(world, l, Domain).exc = "none")
       IN dnsResults' =
              [dnsResults EXCEPT
                  !.subdomains =
                      Put(@, Domain,
                          [k \in DOMAIN found_subdomains |->
                              [subdomain |-> found_subdomains[k] \o "." \o Domain,
                               ip |-> ResolveHost(world, found_subdomains[k], Domain).rdata]]),
                  !.dns_records = Put(@, Domain, domain_results)]
    /\ lookups' = lookups \cup {<<l \o "." \o Domain, "A">> : l \in Items(common_subdomains)}
    /\ IF dom < Len(DISCORD_DOMAINS)
       THEN /\ dom' = dom + 1
            /\ dpc' = "records"
       ELSE /\ dpc' = "done"
            /\ UNCHANGED dom
    /\ UNCHANGED <<world, nameservers, nsi, domain_results, dnsRaised, xfrs>>
    /\ UNCHANGED <<orchVars, reqVars, manyVars, fuzzVars, loopVars, unitVars>>

-----------------------------------------------------------------------------
(* The units' enumerate: ASN, services, servers and CDN                    *)

ASN_DOMAINS ==
    <<"discord.com", "discordapp.com", "discord.gg", "cdn.discordapp.com",
      "media.discordapp.net">>

SERVICES ==
    <<"gateway", "cdn", "media", "status", "support", "developer", "application">>

ENDPOINTS ==
    <<"/gateway", "/gateway/bot", "/voice/regions", "/applications/public",
      "/oauth2/applications/@me", "/users/@me", "/users/@me/guilds",
      "/users/@me/connections">>

auth_endpoints == <<"/users/@me", "/users/@me/guilds", "/users/@me/connections">>

popular_categories ==
    <<"gaming", "music", "education", "science", "technology", "anime",
      "entertainment", "community", "creative">>

\* The units whose enumerate is a loop over sub-targets, and the CDN unit.
Variants == {"asn", "services", "servers", "cdn"}

InGroup(group, names) == [k \in DOMAIN names |-> [group |-> group, name |-> names[k]]]

\* The sub-targets of a unit in the order in which enumerate takes them.
\* The servers unit is the one without a token.
Targets(u, tok) ==
    CASE u = "asn" -> InGroup("asn_info", ASN_DOMAINS)
      [] u = "services" ->
             InGroup("services_status", SERVICES) \o InGroup("api_endpoints", ENDPOINTS)
                 \o IF tok THEN InGroup("authenticated_endpoints", auth_endpoints) ELSE <<>>
      [] u = "servers" -> InGroup("public_servers", popular_categories)
      [] OTHER -> <<>>

\* What a lookup or request of a unit raises when it fails.
FailuresOf(u) ==
    CASE u = "asn" -> {"gaierror", "HTTPLookupError"}
      [] u = "services" -> {"ClientConnectorError", "TimeoutError"}
      [] u = "servers" -> {"ClientConnectorError", "ContentTypeError"}
      [] OTHER -> {}

\* At most so many sub-targets of a run fail.
MaxFailures == 2

EmptyUnitResults ==
    [list |-> <<>>, dict |-> EmptyMap, errors |-> <<>>]

\* d[group][name] = v
PutIn(d, group, name, v) ==
    Put(d, group, Put(IF group \in DOMAIN d THEN d[group] ELSE EmptyMap, name, v))

\* The statements of the try block after the request was answered.
Found(u, res, t) ==
    CASE u = "asn" ->
             [res EXCEPT !.list = Append(@, [domain |-> t.name])]
      [] u = "services" ->
             [res EXCEPT !.dict = PutIn(@, t.group, t.name, [status |-> "answered"])]
      [] u = "servers" ->
             [res EXCEPT !.list = Append(@, [category |-> t.name])]

\* Variant of Failed: every unit's handler logs the error and goes on.
FailedLogOnly(u, res, t, e) == res

\* The handler of the try block.
Failed(u, res, t, e) ==
    CASE u = "asn" -> res
      [] u = "services" ->
             IF t.group = "authenticated_endpoints" THEN res
             ELSE [res EXCEPT
                      !.dict = PutIn(@, t.group, t.name, [status |-> "error", error |-> e])]
      [] u = "servers" ->
             [res EXCEPT !.errors = Append(@, <<t.name, e>>)]

UnitStart ==
    /\ phase = "idle"
    /\ idx = 1
    /\ uresults = EmptyUnitResults
    /\ attempted = <<>>
    /\ outcomeOf = <<>>
    /\ uraised = "none"

\* The units, in the specifications that leave them at rest.
UnitIdle == UnitStart /\ unit = "asn" /\ utoken = FALSE

UnitInit ==
    /\ UnitStart
    /\ unit \in Variants
    /\ utoken \in IF unit = "services" THEN BOOLEAN ELSE {FALSE}

\* enumerate is called and makes its results dict.
UnitEnumerate ==
    /\ phase = "idle"
    /\ phase' = IF unit = "cdn" THEN "endpoints" ELSE "loop"
    /\ UNCHANGED <<unit, utoken, idx, uresults, attempted, outcomeOf, uraised>>
    /\ UNCHANGED <<orchVars, reqVars, manyVars, fuzzVars, loopVars, dnsVars>>

Failures == Cardinality({k \in DOMAIN outcomeOf : outcomeOf[k] # "ok"})

\* One turn of a unit's loop: the lookup or request of one sub-target inside
\* its try.  In the servers unit the handler around the whole loop is an
\* except Exception as well, so what the inner one lets through leaves
\* enumerate.
SubTarget ==
    /\ phase = "loop"
    /\ \E o \in {"ok"} \cup FailuresOf(unit) :
          LET t == Targets(unit, utoken)[idx]
              last == idx = Len(Targets(unit, utoken))
          IN /\ o # "ok" => Failures < MaxFailures
             /\ attempted' = Append(attempted, t)
             /\ outcomeOf' = Append(outcomeOf, o)
             /\ IF o = "ok" \/ IsCaught(o)
                THEN /\ uresults' = IF o = "ok" THEN Found(unit, uresults, t)
                                    ELSE Failed(unit, uresults, t, o)
                     /\ idx' = IF last THEN idx ELSE idx + 1
                     /\ phase' = IF last THEN "returned" ELSE "loop"
                     /\ UNCHANGED uraised
                ELSE /\ phase' = "raised"
                     /\ uraised' = o
                     /\ UNCHANGED <<uresults, idx>>
    /\ UNCHANGED <<unit, utoken>>
    /\ UNCHANGED <<orchVars, reqVars, manyVars, fuzzVars, loopVars, dnsVars>>

A8 == "AAAAAAAA"
A32 == A8 \o A8 \o A8 \o A8
A128 == A32 \o A32 \o A32 \o A32
A512 == A128 \o A128 \o A128 \o A128

\* "A" * 1000
A1000 == A512 \o A128 \o A128 \o A128 \o A32 \o A32 \o A32 \o A8

\* test_paths of _test_cdn_endpoints
TestPaths(domain, endpoint) ==
    LET base == "https://" \o domain \o "/" \o endpoint \o "/"
    IN <<base \o "123456789", base \o "../../etc/passwd", base \o "%00test",
         base \o A1000>>

\* len(await response.read())
SizeOf(resp) == IF resp.status = 200 THEN 512 ELSE 0

\* The entries that the requests for the given URLs leave: one per URL that
\* is answered, none for a URL whose request raises.
EntriesOf(paths) ==
    LET answered == SelectSeq(paths, LAMBDA p : Answer(net, p).exc = "none")
    IN [k \in DOMAIN answered |->
           [path |-> answered[k],
            status |-> Answer(net, answered[k]).status,
            headers |-> Answer(net, answered[k]).headers,
            size |-> SizeOf(Answer(net, answered[k]))]]

\* The exceptions raised by the requests for the given URLs that the
\* handler around each request lets through.
Escaping(paths) ==
    {e \in {Answer(net, p).exc : p \in Items(paths)} \ {"none"} : ~IsCaught(e)}

\* _test_cdn_endpoints for one domain of CDN_DOMAINS.
TestCdnEndpoints ==
    /\ unit = "cdn"
    /\ phase = "endpoints"
    /\ LET domain == CDN_DOMAINS[idx]
           all == UNION {Items(TestPaths(domain, e)) : e \in Items(CDN_ENDPOINTS)}
           escaping == UNION {Escaping(TestPaths(domain, e)) : e \in Items(CDN_ENDPOINTS)}
           last == idx = Len(CDN_DOMAINS)
       IN /\ attempted' = Append(attempted, [group |-> "cdn_endpoints", name |-> domain])
          /\ outcomeOf' =
                 Append(outcomeOf,
                        IF \E p \in all : Answer(net, p).exc # "none" THEN "partial" ELSE "ok")
          /\ IF escaping = {}
             THEN /\ uresults' =
                         [uresults EXCEPT
                             !.dict = PutIn(@, "cdn_endpoints", domain,
                                            [e \in Items(CDN_ENDPOINTS) |->
                                                EntriesOf(TestPaths(domain, e))])]
                  /\ idx' = IF last THEN 1 ELSE idx + 1
                  /\ phase' = IF last THEN "fuzz" ELSE "endpoints"
                  /\ UNCHANGED uraised
             ELSE /\ phase' = "raised"
                  /\ uraised' = CHOOSE e \in escaping : TRUE
                  /\ UNCHANGED <<uresults, idx>>
    /\ UNCHANGED <<unit, utoken>>
    /\ UNCHANGED <<orchVars, reqVars, manyVars, fuzzVars, loopVars, dnsVars>>

\* await self._fuzz_cdn_paths(), step by step.
FuzzInEnumerate ==
    /\ unit = "cdn"
    /\ phase = "fuzz"
    /\ \/ FuzzCdnPaths
       \/ DrawTestId
       \/ Probe

\* The two extend() calls that follow _fuzz_cdn_paths; an exception that
\* left _fuzz_cdn_paths leaves enumerate.
ExtendFindings ==
    /\ unit = "cdn"
    /\ phase = "fuzz"
    /\ fpc \in {"done", "raised"}
    /\ IF fpc = "done"
       THEN /\ uresults' =
                   [uresults EXCEPT
                       !.dict = Put(Put(@, "vulnerable_patterns", fuzz.vulnerable),
                                    "interesting_findings", fuzz.interesting)]
            /\ phase' = "metadata"
            /\ UNCHANGED uraised
       ELSE /\ phase' = "raised"
            /\ uraised' = fuzzRaised
            /\ UNCHANGED uresults
    /\ UNCHANGED <<unit, utoken, idx, attempted, outcomeOf>>
    /\ UNCHANGED <<orchVars, reqVars, manyVars, fuzzVars, loopVars, dnsVars>>

test_sizes == <<"16", "32", "64", "128", "256", "512", "1024", "2048", "4096">>

test_formats == <<"png", "jpg", "webp", "gif">>

MetadataUrl(domain, size, fmt) ==
    "https://" \o domain \o "/avatars/123456789/test." \o fmt \o "?size=" \o size

\* f'{size}_{fmt}'
MetadataKey(size, fmt) == size \o "_" \o fmt

\* The dict that the HEAD requests for one domain leave: an entry for each
\* pair of size and format whose request is answered.
MetadataOf(domain) ==
    LET product == Items(test_sizes) \X Items(test_formats)
        answered == {sf \in product :
                        Answer(net, MetadataUrl(domain, sf[1], sf[2])).exc = "none"}
    IN [key \in {MetadataKey(sf[1], sf[2]) : sf \in answered} |->
           LET sf == CHOOSE x \in answered : MetadataKey(x[1], x[2]) = key
               response == Answer(net, MetadataUrl(domain, sf[1], sf[2]))
           IN [status |-> response.status, headers |-> response.headers]]

MetadataUrls(domain) ==
    {MetadataUrl(domain, sf[1], sf[2]) : sf \in Items(test_sizes) \X Items(test_formats)}

\* _test_metadata_extraction for one domain of CDN_DOMAINS, and the return
\* of enumerate after the last.
TestMetadataExtraction ==
    /\ unit = "cdn"
    /\ phase = "metadata"
    /\ LET domain == CDN_DOMAINS[idx]
           thrown == {Answer(net, url).exc : url \in MetadataUrls(domain)} \ {"none"}
           escaping == {e \in thrown : ~IsCaught(e)}
           last == idx = Len(CDN_DOMAINS)
       IN /\ attempted' = Append(attempted, [group |-> "metadata", name |-> domain])
          /\ outcomeOf' = Append(outcomeOf, IF thrown # {} THEN "partial" ELSE "ok")
          /\ IF escaping = {}
             THEN /\ uresults' =
                         [uresults EXCEPT
                             !.dict = PutIn(@, "metadata", domain, MetadataOf(domain))]
                  /\ idx' = IF last THEN idx ELSE idx + 1
                  /\ phase' = IF last THEN "returned" ELSE "metadata"
                  /\ UNCHANGED uraised
             ELSE /\ phase' = "raised"
                  /\ uraised' = CHOOSE e \in escaping : TRUE
                  /\ UNCHANGED <<uresults, idx>>
    /\ UNCHANGED <<unit, utoken>>
    /\ UNCHANGED <<orchVars, reqVars, manyVars, fuzzVars, loopVars, dnsVars>>

-----------------------------------------------------------------------------
(* Specifications                                                          *)

\* The fuzzer, in the specifications that leave it at rest.
FuzzAtRest == FuzzIdle /\ net = "missing"

Init == OrchInit /\ ReqInit /\ session = FALSE /\ ManyInit /\ FuzzAtRest /\ LoopInit
        /\ DnsIdle /\ UnitIdle

Next ==
    \/ EnumerateAll
    \/ ConstructInAll
    \/ \E u \in Units : Acquire(u)
    \/ \E u \in Units : Enumerate(u)
    \/ \E u \in Units : Release(u)
    \/ ReturnAll
    \/ EnumerateModule
    \/ ConstructInModule
    \/ AcquireInModule
    \/ EnumerateInModule
    \/ ReleaseInModule

Spec == Init /\ [][Next]_vars

InitRequest == OrchInit /\ ReqInit /\ ManyInit /\ FuzzAtRest /\ LoopInit
        /\ DnsIdle /\ UnitIdle

NextRequest ==
    \/ MakeRequest
    \/ Attempt
    \/ Wake

SpecRequest == InitRequest /\ [][NextRequest]_vars

\* enumerate_all alone, with the order in which the tasks end kept.
InitOrder ==
    /\ OrchStart /\ first = "none"
    /\ ReqInit /\ session = FALSE /\ ManyInit /\ FuzzAtRest /\ LoopInit
        /\ DnsIdle /\ UnitIdle

NextAll ==
    \/ EnumerateAll
    \/ ConstructInAll
    \/ \E u \in Units : Acquire(u)
    \/ \E u \in Units : Enumerate(u)
    \/ \E u \in Units : Release(u)
    \/ ReturnAll

SpecOrder == InitOrder /\ [][NextAll]_vars

\* enumerate_all under asyncio.run, which Ctrl-C may end at any moment.
NextInterrupt ==
    \/ NextAll
    \/ Interrupt

SpecInterrupt == Init /\ [][NextInterrupt]_vars

InitMany == OrchInit /\ ReqInit /\ session = FALSE /\ ManyInit /\ FuzzAtRest /\ LoopInit
        /\ DnsIdle /\ UnitIdle

NextMany ==
    \/ ParallelRequests
    \/ Elapse
    \/ \E i \in DOMAIN tasks : FetchWake(i)
    \/ \E i \in DOMAIN tasks : FetchDone(i)
    \/ GatherReturn

SpecMany == InitMany /\ [][NextMany]_vars

InitFuzz == OrchInit /\ ReqInit /\ session = FALSE /\ ManyInit /\ FuzzInit /\ LoopInit
        /\ DnsIdle /\ UnitIdle

NextFuzz ==
    \/ FuzzCdnPaths
    \/ DrawTestId
    \/ Probe
    \/ FuzzAgain

SpecFuzz == InitFuzz /\ [][NextFuzz]_vars

InitLoop == OrchInit /\ ReqInit /\ session = FALSE /\ ManyInit /\ FuzzAtRest /\ LoopInit
        /\ DnsIdle /\ UnitIdle

NextLoop ==
    \/ \E u \in Units : RunToAwait(u)
    \/ \E u \in Units : RunToEnd(u)

SpecLoop == InitLoop /\ [][NextLoop]_vars

InitDns ==
    OrchInit /\ ReqInit /\ session = FALSE /\ ManyInit /\ FuzzAtRest /\ LoopInit
        /\ DnsInit /\ UnitIdle

NextDns ==
    \/ DnsEnumerate
    \/ Records
    \/ Nameservers
    \/ SecurityRecords
    \/ ZoneTransfer
    \/ Xfr
    \/ Subdomains

SpecDns == InitDns /\ [][NextDns]_vars

InitUnits ==
    /\ OrchInit /\ ReqInit /\ session = FALSE /\ ManyInit /\ LoopInit /\ DnsIdle
    /\ UnitInit
    /\ IF unit = "cdn" THEN FuzzInit ELSE FuzzAtRest

NextUnits ==
    \/ UnitEnumerate
    \/ SubTarget
    \/ TestCdnEndpoints
    \/ FuzzInEnumerate
    \/ ExtendFindings
    \/ TestMetadataExtraction

SpecUnits == InitUnits /\ [][NextUnits]_vars

-----------------------------------------------------------------------------
(* Properties of the orchestrator, checked under Spec                      *)

Last(q) == q[Len(q)]

\* The entry a finished unit must hold, from its own history alone: the
\* value its enumerate returned, or {error: message} of its last exception.
OwnEntry(u) ==
    IF failed[u] = <<>> THEN enumRet[u] ELSE ErrorEntry(Last(failed[u]))

\* C1: once enumerate_all has returned, results holds one entry for each of
\* the five units and no other key; the entry of a unit that never raised is
\* the full or partial result of its enumerate, the entry of a unit that
\* raised is {error: message} of that unit's own exception.
C1_OneEntryPerUnit ==
    (call = "all" /\ cstate = "returned") =>
        /\ DOMAIN results = Units
        /\ \A u \in Units :
              /\ results[u] = OwnEntry(u)
              /\ failed[u] = <<>> => results[u] \in UnitResults
              /\ failed[u] # <<>> => /\ results[u].kind = "error"
                                     /\ results[u].val[1] = u

\* enumerate_all has returned with a full, a partial and three failed units,
\* one failure at each point.
C1_Witness ==
    /\ call = "all"
    /\ cstate = "returned"
    /\ results["asn"] = [kind |-> "result", val |-> "full"]
    /\ results["dns"] = [kind |-> "result", val |-> "partial"]
    /\ results["services"] = ErrorEntry(Exc("acquire", "services"))
    /\ results["cdn"] = ErrorEntry(Exc("enumerate", "cdn"))
    /\ results["servers"] = ErrorEntry(Exc("release", "servers"))

\* C2: in every state of a run of enumerate_all, under every interleaving of
\* the tasks: a task that raised while acquiring, enumerating or releasing
\* ends with {error: message} stored under its name; enumerate_all itself has
\* not raised; every task that has ended holds the entry its own history
\* gives, so a sibling that did not raise holds what its enumerate returned;
\* no task is anywhere but on its own path, and the call returns only after
\* all five have ended.
C2_FailureIsolated ==
    (call = "all" /\ cstate \in {"running", "returned"}) =>
        /\ raised = NoExc
        /\ \A u \in Units :
              /\ upc[u] \in {"start", "entered", "exiting", "done"}
              /\ upc[u] = "done" =>
                    /\ u \in DOMAIN results
                    /\ results[u] = OwnEntry(u)
              /\ (upc[u] = "done" /\ failed[u] = <<>>) =>
                    /\ enumRet[u] \in UnitResults
                    /\ results[u] = enumRet[u]
              /\ cstate = "returned" => upc[u] = "done"

\* asn has failed in enumerate and ended with its error stored, dns has ended
\* afterwards with the result of its own enumerate, cdn is still enumerating.
C2_Witness ==
    /\ call = "all"
    /\ cstate = "running"
    /\ upc["asn"] = "done"
    /\ "asn" \in DOMAIN results
    /\ results["asn"] = ErrorEntry(Exc("enumerate", "asn"))
    /\ upc["dns"] = "done"
    /\ "dns" \in DOMAIN results
    /\ results["dns"] = [kind |-> "result", val |-> "full"]
    /\ upc["cdn"] = "entered"
    /\ upc["servers"] = "start"

\* C3: for a registered unit, neither enumerate_all nor enumerate_module
\* raises, wherever the unit fails (construction, acquisition, enumerate,
\* release): the call ends by returning its report.
C3_NoUnitExceptionEscapes ==
    (call = "all" \/ (call = "one" /\ module \in Units)) => cstate # "raised"

-----------------------------------------------------------------------------
(* Properties of the request client, checked under SpecRequest             *)

IsHttp(r) == r.exc = "none"

\* A 200 response whose body is no JSON text.
Unparseable(r) ==
    IsHttp(r) /\ r.status = 200 /\ r.body \notin {JsonOk, JsonNull}

\* C4: _make_request never ends by raising.
C4_NeverRaises == outcome.kind # "raise"

\* C5: whatever mix of 429 responses and transport failures the attempts
\* meet, at most 3 attempts are made, and the call then ends by returning.
C5_SharedBudgetTerminal ==
    /\ Len(observed) <= 3
    /\ (/\ rpc = "done"
        /\ \A i \in 1..Len(observed) :
              ~IsHttp(observed[i]) \/ observed[i].status = 429)
       => outcome.kind = "return"

\* C6: an attempt that meets a status other than 200 and 429 is the last one:
\* the call has ended with it, no sleep was made for it, nothing follows it.
C6_NoRetryOnTerminalStatus ==
    \A i \in 1..Len(observed) :
        (IsHttp(observed[i]) /\ observed[i].status \notin {200, 429}) =>
            /\ i = Len(observed)
            /\ rpc = "done"
            /\ \A k \in 1..Len(sleeps) : sleeps[k][3] # i

\* A 429 and a transport failure were backed off, then a 404 ended the call.
C6_Witness ==
    /\ rpc = "done"
    /\ Len(observed) = 3
    /\ observed[1].status = 429
    /\ observed[2].exc = "ServerDisconnectedError"
    /\ observed[3].status = 404
    /\ Len(sleeps) = 2

\* The delay a Retry-After header asks for, in ms; the header spells a whole
\* number of seconds.
AskedDelay(h) == 1000 * (CHOOSE n \in 0..MaxRetryAfter : h.str = ToString(n))

\* C7: every sleep made after a 429 lasts what that response's Retry-After
\* header says, and the default rate_limit_delay when the response has no
\* such header; every sleep made after a transport failure lasts the fixed
\* one second; the next attempt is made no earlier than the sleep allows.
C7_BackoffDelays ==
    \A k \in 1..Len(sleeps) :
        LET cause == sleeps[k][1]
            ms == sleeps[k][2]
            i == sleeps[k][3]
        IN  /\ i <= Len(observed)
            /\ cause \in {"429", "transport"}
            /\ cause = "429" =>
                  /\ IsHttp(observed[i]) /\ observed[i].status = 429
                  /\ IF observed[i].retry_after = Absent
                     THEN ms = 500
                     ELSE ms = AskedDelay(observed[i].retry_after)
            /\ cause = "transport" =>
                  /\ ms = 1000
                  /\ observed[i].status # 429
            /\ i < Len(attemptAt) => attemptAt[i + 1] - attemptAt[i] >= ms

\* Three backoffs in one call: after a transport failure, after a 429 with
\* Retry-After: 2, after a 429 without the header.
C7_Witness ==
    /\ Len(sleeps) = 3
    /\ sleeps[1] = <<"transport", 1000, 1>>
    /\ observed[2].retry_after = StrVal("2")
    /\ sleeps[2] = <<"429", 2000, 2>>
    /\ observed[3].retry_after = Absent
    /\ sleeps[3] = <<"429", 500, 3>>

\* The attempts before the last all met a 429 whose Retry-After spells a
\* number, and the last met a 200 with a JSON body.
RateLimitedThenOk ==
    /\ rpc = "done"
    /\ Len(observed) >= 1
    /\ \A i \in 1..(Len(observed) - 1) :
          /\ IsHttp(observed[i]) /\ observed[i].status = 429
          /\ observed[i].retry_after # Absent
    /\ IsHttp(Last(observed)) /\ Last(observed).status = 200
    /\ Last(observed).content_type = "application/json"
    /\ Last(observed).body \in {JsonOk, JsonNull}

C9_UnparseableOkIsSuccess ==
    \A i \in 1..Len(observed) :
        Unparseable(observed[i]) =>
            /\ i = Len(observed)
            /\ rpc = "done"
            /\ outcome.kind = "return"
            /\ outcome.value # NoneValue

OtherStatus(r) == IsHttp(r) /\ r.status \notin {200, 404, 429}

-----------------------------------------------------------------------------
(* Properties of _parallel_requests, checked under SpecMany                *)

\* C11: once _parallel_requests has returned, the list it returned is as
\* long as the list of urls it was given, whatever each task met (a dict,
\* None, or an exception raised inside the task).
C11_OneOutcomePerTarget ==
    mpc = "done" => Len(manyRet) = Len(urls)

-----------------------------------------------------------------------------
(* Further properties of the orchestrator                                  *)

\* C12: enumerate_module with a name that is not in the registry raises the
\* invalid-module error at once: no unit is constructed, acquired or
\* enumerated, nothing is stored and no report is handed back.  (Spec)
C12_UnknownNameRaises ==
    (call = "one" /\ module \notin Units) =>
        /\ cstate = "raised"
        /\ raised = Exc("invalid module", module)
        /\ \A u \in Units : upc[u] = "none" /\ events[u] = <<>> /\ failed[u] = <<>>
        /\ moduleResults = EmptyDict
        /\ ~moduleTimed
        /\ report = NoReport

\* enumerate_module("unknown") has raised the invalid-module error.
C12_Witness ==
    /\ call = "one"
    /\ module = "unknown"
    /\ cstate = "raised"
    /\ raised = Exc("invalid module", "unknown")

Range(q) == {q[k] : k \in DOMAIN q}

Before(q, a, b) ==
    \E i, j \in DOMAIN q : i < j /\ q[i] = a /\ q[j] = b

\* C15: in either coroutine, a unit's enumerate starts only after its session
\* was opened, and a unit whose enumerate has started and whose scope is left
\* (its task has ended) has its session closed and its executor shut down,
\* whether enumerate returned or raised.  (Spec)
C15_AcquiredThenReleased ==
    \A u \in Units :
        /\ "enumerate" \in Range(events[u]) => Before(events[u], "session", "enumerate")
        /\ (upc[u] = "done" /\ "enumerate" \in Range(events[u])) =>
              /\ Before(events[u], "enumerate", "closed")
              /\ Before(events[u], "closed", "shutdown")

\* C16: when enumerate_all is interrupted, a report is handed back, and it
\* holds the entry of every unit whose task had ended before the interrupt
\* and no entry for a unit that was cancelled.  (SpecInterrupt)
C16_InterruptYieldsReport ==
    (call = "all" /\ raised.point = "KeyboardInterrupt") =>
        /\ report.given
        /\ \A u \in Units :
              /\ upc[u] = "done" =>
                    /\ u \in DOMAIN report.results
                    /\ report.results[u] = results[u]
              /\ upc[u] = "cancelled" => u \notin DOMAIN report.results

\* C20: whichever task ends first, and in whatever order the others follow,
\* the mapping enumerate_all hands back is the one the units' own outcomes
\* give: each name with the value its enumerate returned or with the error
\* of its own exception.  (SpecOrder)
C20_OrderFree ==
    (call = "all" /\ cstate = "returned") =>
        /\ first \in Units
        /\ report.given
        /\ report.results = [u \in Units |-> OwnEntry(u)]

\* enumerate_all has returned from a run in which the last unit of the
\* registry ended first, two units failed and three did not.
C20_Witness ==
    /\ call = "all"
    /\ cstate = "returned"
    /\ first = "servers"
    /\ report.given
    /\ report.results["servers"] = [kind |-> "result", val |-> "partial"]
    /\ report.results["asn"] = ErrorEntry(Exc("release", "asn"))
    /\ report.results["dns"] = [kind |-> "result", val |-> "full"]
    /\ report.results["services"] = ErrorEntry(Exc("enumerate", "services"))
    /\ report.results["cdn"] = [kind |-> "result", val |-> "full"]

-----------------------------------------------------------------------------
(* Properties of the CDN fuzzer, checked under SpecFuzz                    *)

\* The place of a tuple of loop indices in the order of the loops.
Index(p) ==
    ((((p[1] - 1) * Len(patterns) + (p[2] - 1)) * IdCount + (p[3] - 1))
        * Len(IMAGE_EXTENSIONS)) + p[4]

\* C13: the fuzzer builds, and probes, exactly one candidate URL for each
\* tuple of domain, pattern, identifier and extension: at every turn of the
\* loops the count is the number of tuples passed, and at the end it is
\* |domains| x |patterns| x |identifiers| x |extensions|.
C13_CandidateCount ==
    /\ fpc = "loop" => count = Index(pos) - 1 /\ heads = count
    /\ fpc = "done" =>
          /\ count = Len(CDN_DOMAINS) * Len(patterns) * Len(test_ids)
                        * Len(IMAGE_EXTENSIONS)
          /\ heads = count

\* A run of the fuzzer has ended with 3 x 7 x 5 x 5 candidates, some of
\* which the CDN answered with 200.
C13_Witness ==
    /\ fpc = "done"
    /\ Len(test_ids) = IdCount
    /\ count = 525
    /\ fuzz.interesting # <<>>

Tuples ==
    (1..Len(CDN_DOMAINS)) \X (1..Len(patterns)) \X (1..IdCount)
        \X (1..Len(IMAGE_EXTENSIONS))

\* The candidate of a tuple, given the endpoint drawn for it.
Candidate(t, endpoint) ==
    Url(CDN_DOMAINS[t[1]],
        Format(patterns[t[2]], test_ids[t[3]], IMAGE_EXTENSIONS[t[4]], endpoint))

\* C14: with pairwise distinct identifiers in the pool, two different tuples
\* of domain, pattern, identifier and extension give two different candidate
\* URLs, whatever endpoints are drawn for them.
C14_NoDuplicates ==
    (/\ fpc \in {"loop", "done"}
     /\ \A i, j \in 1..IdCount : i # j => test_ids[i] # test_ids[j]) =>
        \A t1, t2 \in Tuples :
            t1 # t2 =>
                \A e1, e2 \in Range(CDN_ENDPOINTS) :
                    Candidate(t1, e1) # Candidate(t2, e2)

\* C17: a 429 that a HEAD request of the fuzzer receives is backed off and
\* retried under the request client's policy, and is not recorded as the
\* finding of that request.
C17_RateLimitedIsRetried ==
    \A k \in DOMAIN fuzz.interesting : fuzz.interesting[k].status # 429

-----------------------------------------------------------------------------
(* Properties of the event loop, checked under SpecLoop                    *)

\* C19: no unit's enumerate runs from its start to its end in one piece:
\* it is suspended at least once before it ends, so that the tasks of the
\* other units get to run in between.
C19_EveryUnitYields ==
    \A u \in Units : tstate[u] = "done" => yields[u] >= 1

-----------------------------------------------------------------------------
(* Properties of the orchestrator's bookkeeping, checked under Spec        *)

\* C21: once enumerate_all has returned, metadata.execution_time holds an
\* entry for each of the five units, also for a unit that raised and whose
\* entry in results is {error: message}.
C21_ElapsedForEveryUnit ==
    (call = "all" /\ cstate = "returned") => execution_time = Units

\* How the call that has ended treated unit u, as its caller sees it:
\* whether it returned or raised, and the entry it holds for u.
Treatment(u) ==
    [ended |-> cstate,
     entry |-> IF call = "one"
               THEN moduleResults
               ELSE IF u \in DOMAIN results THEN results[u] ELSE NoResult]

\* No unit other than u failed in its constructor.
AloneAtFault(u) ==
    \A v \in Units \ {u} : \A k \in DOMAIN failed[v] : failed[v][k].point # "construct"

\* C22: enumerate_module(u) and enumerate_all treat unit u alike: whichever
\* of the two has ended, and wherever u failed (constructor, acquisition,
\* enumerate, release), the call has returned and holds for u the entry that
\* u's own history gives.
C22_SameTreatment ==
    \A u \in Units :
        (/\ cstate \in {"returned", "raised"}
         /\ call = "all" \/ (call = "one" /\ module = u)
         /\ AloneAtFault(u)) =>
            Treatment(u) = [ended |-> "returned", entry |-> OwnEntry(u)]

\* C30: in enumerate_all an entry is written once: the value a unit's
\* enumerate returned stays under the unit's name whatever follows (a failing
\* release too), and no unit has both an elapsed time and an error entry.
C30_WrittenOnce ==
    call = "all" =>
        \A u \in Units :
            /\ enumRet[u] # NoResult =>
                  /\ u \in DOMAIN results
                  /\ results[u] = enumRet[u]
            /\ ~(/\ u \in execution_time
                 /\ u \in DOMAIN results
                 /\ results[u].kind = "error")

-----------------------------------------------------------------------------
(* Properties of the retry loop, checked under SpecRequest                 *)

\* C27: every sleep of _make_request is followed by another attempt: when
\* the call has ended, each sleep was made after an attempt that was not
\* the last one.
C27_SleepThenRetry ==
    rpc = "done" =>
        \A k \in DOMAIN sleeps : sleeps[k][3] < Len(observed)

-----------------------------------------------------------------------------
(* Properties of the delay of _parallel_requests, checked under SpecMany   *)

\* C28: every task issues its request no earlier than the delay after the
\* call, and waits for no other task: once the delay has passed, each task
\* that still sleeps can issue its request, wherever the other tasks stand.
C28_IndependentDelay ==
    \A i \in DOMAIN tasks :
        /\ issuedAt[i] # -1 => issuedAt[i] >= RateLimitDelay
        /\ (mpc = "gather" /\ tasks[i] = "sleeping" /\ mnow >= RateLimitDelay) =>
              ENABLED FetchWake(i)

\* All of the MaxTargets requests were issued at the same instant, one delay
\* after the call.
C28_Witness ==
    /\ Len(urls) = MaxTargets
    /\ \A i \in DOMAIN tasks : issuedAt[i] = RateLimitDelay

\* The URLs of a list of findings, in order.
UrlsOf(list) == [k \in DOMAIN list |-> list[k].url]

StatusKept(a) == a.resp.status # 404 /\ a.resp.status # 403

NamesCache(a) ==
    \E h \in a.resp.headers :
        \E name \in {"x-cache", "x-cache-hits", "x-served-by"} : Lower(h) = Lower(name)

\* C25: of the responses the CDN unit has received, those recorded as
\* interesting are exactly the ones whose status is neither 404 nor 403, and
\* those flagged vulnerable, with type information_disclosure, are exactly
\* the ones with a header named x-cache, x-cache-hits or x-served-by in any
\* mix of upper and lower case.
C25_RecordedExactly ==
    /\ UrlsOf(fuzz.interesting) = UrlsOf(SelectSeq(answers, StatusKept))
    /\ UrlsOf(fuzz.vulnerable) = UrlsOf(SelectSeq(answers, NamesCache))
    /\ \A k \in DOMAIN fuzz.vulnerable : fuzz.vulnerable[k].type = "information_disclosure"

\* A run has ended in which one response was both kept and flagged, and
\* another was neither.
C25_Witness ==
    /\ fpc = "done"
    /\ \E k \in DOMAIN answers : StatusKept(answers[k]) /\ NamesCache(answers[k])
    /\ \E k \in DOMAIN answers : ~StatusKept(answers[k]) /\ ~NamesCache(answers[k])
    /\ fuzz.vulnerable # <<>>

IsRecorded(list, url) == \E k \in DOMAIN list : list[k].url = url

\* C26 as stated: when fuzzing has ended, every URL in the vulnerable list
\* is in the interesting list too.
C26_VulnerableIsInteresting ==
    fpc = "done" =>
        \A k \in DOMAIN fuzz.vulnerable :
            IsRecorded(fuzz.interesting, fuzz.vulnerable[k].url)

\* C26, amended: when fuzzing has ended, a URL in the vulnerable list is in
\* the interesting list exactly when the response to it had a status other
\* than 404 and 403.
C26_VulnerableInterestingByStatus ==
    fpc = "done" =>
        \A k \in DOMAIN fuzz.vulnerable :
            IsRecorded(fuzz.interesting, fuzz.vulnerable[k].url)
                <=> \E a \in DOMAIN answers :
                        /\ answers[a].url = fuzz.vulnerable[k].url
                        /\ StatusKept(answers[a])

\* Fuzzing has ended with a flagged URL whose response was a 404 or a 403.
C26_Witness ==
    /\ fpc = "done"
    /\ \E k \in DOMAIN fuzz.vulnerable :
           \E a \in DOMAIN answers :
               /\ answers[a].url = fuzz.vulnerable[k].url
               /\ ~StatusKept(answers[a])

-----------------------------------------------------------------------------
(* Properties of the DNS unit, checked under SpecDns                       *)

\* The zone-transfer step of the d-th domain is over.
PastZone(d) == dpc = "done" \/ dom > d \/ (dom = d /\ dpc = "subs")

\* C23: once the zone-transfer step of a domain is over, a transfer has been
\* attempted against every nameserver that the NS lookup returned for it,
\* whatever the earlier attempts ended in; no attempt's failure leaves
\* enumerate.
C23_EveryNameserverAttempted ==
    /\ dpc # "raised"
    /\ \A d \in DOMAIN DISCORD_DOMAINS :
           PastZone(d) =>
               \A ns \in Items(ResolveDomain(world, DISCORD_DOMAINS[d], "NS").rdata) :
                   <<DISCORD_DOMAINS[d], ns>> \in xfrs

\* enumerate has returned in a world where the first of several
\* nameservers refuses the connection.
C23_Witness ==
    /\ dpc = "done"
    /\ Len(world.xfr) = MaxNs
    /\ world.xfr[1] = "ConnectionRefusedError"
    /\ \A d \in DOMAIN DISCORD_DOMAINS :
           <<DISCORD_DOMAINS[d], NsName(MaxNs, DISCORD_DOMAINS[d])>> \in xfrs

\* The security-record step of the d-th domain is over.
PastSecurity(d) ==
    dpc = "done" \/ dom > d \/ (dom = d /\ dpc \in {"zone", "xfr", "subs", "raised"})

SecurityOf(d) ==
    IF DISCORD_DOMAINS[d] \in DOMAIN dnsResults.dns_records
    THEN dnsResults.dns_records[DISCORD_DOMAINS[d]].security
    ELSE domain_results.security

\* C29: once the security-record step of a domain is over, the DMARC lookup
\* of that domain has been attempted, whether or not its SPF lookup failed,
\* and an SPF answer that was obtained is in the domain's security results,
\* whether or not the DMARC lookup failed.
C29_SecurityLookupsIsolated ==
    \A d \in DOMAIN DISCORD_DOMAINS :
        PastSecurity(d) =>
            /\ <<"_dmarc." \o DISCORD_DOMAINS[d], "TXT">> \in lookups
            /\ ResolveDomain(world, DISCORD_DOMAINS[d], "TXT").exc = "none"
                   => "spf" \in DOMAIN SecurityOf(d)

-----------------------------------------------------------------------------
(* Properties of the units' enumerate, checked under SpecUnits             *)

\* The results hold the finding of sub-target t.
Holds(u, res, t) ==
    CASE u = "asn" -> \E k \in DOMAIN res.list : res.list[k].domain = t.name
      [] u = "services" ->
             /\ t.group \in DOMAIN res.dict
             /\ t.name \in DOMAIN res.dict[t.group]
             /\ res.dict[t.group][t.name].status = "answered"
      [] u = "servers" -> \E k \in DOMAIN res.list : res.list[k].category = t.name

\* What the CDN unit returns holds every answer that it was given: those of
\* the endpoint tests, the findings of the fuzzer and the metadata.
CdnHoldsAnswers ==
    /\ attempted = InGroup("cdn_endpoints", CDN_DOMAINS) \o InGroup("metadata", CDN_DOMAINS)
    /\ heads = Len(CDN_DOMAINS) * Len(patterns) * IdCount * Len(IMAGE_EXTENSIONS)
    /\ \A domain \in Items(CDN_DOMAINS) : \A e \in Items(CDN_ENDPOINTS) :
           \A p \in Items(TestPaths(domain, e)) :
               Answer(net, p).exc = "none" =>
                   IsRecorded([k \in DOMAIN uresults.dict["cdn_endpoints"][domain][e] |->
                                  [url |-> uresults.dict["cdn_endpoints"][domain][e][k].path]],
                              p)
    /\ \A k \in DOMAIN answers :
           /\ StatusKept(answers[k])
                  => IsRecorded(uresults.dict["interesting_findings"], answers[k].url)
           /\ NamesCache(answers[k])
                  => IsRecorded(uresults.dict["vulnerable_patterns"], answers[k].url)
    /\ \A domain \in Items(CDN_DOMAINS) :
           \A size \in Items(test_sizes) : \A fmt \in Items(test_formats) :
               Answer(net, MetadataUrl(domain, size, fmt)).exc = "none" =>
                   MetadataKey(size, fmt) \in DOMAIN uresults.dict["metadata"][domain]

\* C24: in the ASN, services, servers and CDN units no failure of a lookup
\* or request leaves enumerate; when enumerate has returned, every
\* sub-target of the unit was attempted, in order, and the results hold the
\* finding of each one that succeeded.
C24_FailuresStayInside ==
    /\ phase # "raised"
    /\ uraised = "none"
    /\ fuzzRaised = "none"
    /\ phase = "returned" =>
           IF unit = "cdn"
           THEN CdnHoldsAnswers
           ELSE /\ attempted = Targets(unit, utoken)
                /\ \A k \in DOMAIN attempted :
                       outcomeOf[k] = "ok" => Holds(unit, uresults, attempted[k])

\* The services unit has returned from a run in which the first request
\* timed out, another sub-target failed too, and the last one was answered.
C24_Witness ==
    /\ phase = "returned"
    /\ unit = "services"
    /\ outcomeOf[1] = "TimeoutError"
    /\ Failures = MaxFailures
    /\ outcomeOf[Len(outcomeOf)] = "ok"

\* The entry of a sub-target in its dict is the one that the outcome of its
\* request calls for: what was observed, or the error with its message.
EntryFor(d, name, o) ==
    /\ name \in DOMAIN d
    /\ IF o = "ok"
       THEN d[name] = [status |-> "answered"]
       ELSE d[name] = [status |-> "error", error |-> o]

OutcomeAt(t) == outcomeOf[CHOOSE k \in DOMAIN attempted : attempted[k] = t]

\* C31: when the services unit's enumerate has returned, services_status
\* has a key for every configured service and no other, api_endpoints a key
\* for every configured endpoint and no other, and under each key is what
\* the request observed or, if the request failed, the error entry with
\* its message.
C31_EveryServiceAndEndpointListed ==
    (unit = "services" /\ phase = "returned") =>
        /\ "services_status" \in DOMAIN uresults.dict
        /\ "api_endpoints" \in DOMAIN uresults.dict
        /\ DOMAIN uresults.dict["services_status"] = Items(SERVICES)
        /\ DOMAIN uresults.dict["api_endpoints"] = Items(ENDPOINTS)
        /\ \A name \in Items(SERVICES) :
               EntryFor(uresults.dict["services_status"], name,
                        OutcomeAt([group |-> "services_status", name |-> name]))
        /\ \A name \in Items(ENDPOINTS) :
               EntryFor(uresults.dict["api_endpoints"], name,
                        OutcomeAt([group |-> "api_endpoints", name |-> name]))

\* The services unit, given a token, has returned from a run in which the
\* request of one service and the request of one endpoint failed.
C31_Witness ==
    /\ unit = "services"
    /\ utoken
    /\ phase = "returned"
    /\ \E k \in 1..Len(SERVICES) : outcomeOf[k] # "ok"
    /\ \E k \in (Len(SERVICES) + 1)..(Len(SERVICES) + Len(ENDPOINTS)) : outcomeOf[k] # "ok"

=============================================================================
